---------------------------- MODULE Spec2Model ----------------------------
(***************************************************************************)
(* Two-party ECDSA (CG-MPC-ECDSA): key generation, MtA share conversion    *)
(* and signing state machines of multi_party_ecdsa, over a small curve of  *)
(* the secp256k1 family (y^2 = x^3 + b, prime order Q, field size > Q).    *)
(* Curve points are represented by their discrete logarithm to the base    *)
(* GENERATOR; the x-coordinate is read from the curve's table.             *)
(***************************************************************************)
EXTENDS Integers, Naturals, Sequences, FiniteSets, TLC

(***************************************************************************)
(* Bounds of the model                                                     *)
(***************************************************************************)
\* blinding factors of the hash commitments are drawn from 0..MaxBlind
MaxBlind == 1
\* handler invocations in a key-generation session, both parties together
MaxCalls == 5
\* forged messages a peer delivers in a signing session
MaxForged == 2
\* sample sets of secret scalars hold MaxSample + 1 values spread over Z_Q
MaxSample == 2
\* calls of set_msg, and of process_begin_sign_online, in a session that
\* repeats them
MaxOnline == 2

(***************************************************************************)
(* Curve and scalar field  (k256::Scalar, k256::ProjectivePoint)           *)
(***************************************************************************)
\* order of the curve group (secp256k1 order q in the source), scaled to the
\* order of y^2 = x^3 + 2 over F_19
Q == 13

Scalar == 0 .. (Q - 1)
Point == 0 .. (Q - 1)

IDENTITY == 0
GENERATOR == 1

ScalarAdd(a, b) == (a + b) % Q
ScalarSub(a, b) == (a + Q - b) % Q
ScalarNeg(a) == (Q - a) % Q
ScalarMul(a, b) == (a * b) % Q

\* Scalar::invert().unwrap_or(Scalar::ZERO)
ScalarInvertOrZero(a) ==
    IF a = 0 THEN 0 ELSE CHOOSE i \in 1 .. (Q - 1) : (a * i) % Q = 1

PointAdd(A, B) == (A + B) % Q
PointSub(A, B) == (A + Q - B) % Q
PointMul(A, s) == (A * s) % Q

\* affine x-coordinate of GENERATOR * k on y^2 = x^3 + 2 over F_19,
\* GENERATOR = (4, 3); the identity has no affine coordinates
XTable == <<4, 18, 6, 9, 12, 8, 8, 12, 9, 6, 18, 4>>

XCoordinate(A) == IF A = IDENTITY THEN [tag |-> "None"]
                  ELSE [tag |-> "Some", x |-> XTable[A]]

\* ProjectivePointExt::bytes_compressed_to_big_int: an injective encoding
bytes_compressed_to_big_int(A) == A

None == [tag |-> "None"]
Some(v) == [tag |-> "Some", v |-> v]

(***************************************************************************)
(* Hash commitment and Schnorr proof  (k256_helpers.rs)                    *)
(***************************************************************************)
Blind == 0 .. MaxBlind

\* SHA-256 of message || blind_factor as a collision-free function whose
\* value is never BigInt::ZERO
create_hash_commitment(message, blind_factor) ==
    1 + message * (MaxBlind + 2) + blind_factor

\* Fiat-Shamir challenge of the Schnorr proof: a fixed function of (P, T)
compute_challenge(public_key, commitment) ==
    (public_key * public_key + 3 * commitment + 2) % Q

\* a prover that leaves the challenge out of its response
DLogProof_prove_no_challenge(secret, random) ==
    [pk_t_rand_commitment |-> PointMul(GENERATOR, random),
     challenge_response |-> ScalarAdd(random, secret)]

DLogProof_prove(secret, random) ==
    LET pk_t_rand_commitment == PointMul(GENERATOR, random)
        public_key == PointMul(GENERATOR, secret)
        challenge == compute_challenge(public_key, pk_t_rand_commitment)
    IN  [pk_t_rand_commitment |-> pk_t_rand_commitment,
         challenge_response |-> ScalarAdd(random, ScalarMul(challenge, secret))]

DLogProof_verify(proof, public_key) ==
    LET challenge == compute_challenge(public_key, proof.pk_t_rand_commitment)
        lhs == PointMul(GENERATOR, proof.challenge_response)
        rhs == PointAdd(proof.pk_t_rand_commitment, PointMul(public_key, challenge))
    IN  IF lhs = rhs THEN "Ok" ELSE "Err"

(***************************************************************************)
(* DLComZK  (dl_com_zk.rs)                                                 *)
(***************************************************************************)
DLCommitments_default == [pk_commitment |-> 0, zk_pok_commitment |-> 0]

DLComZK_new(secret_share, public_share, random, blind1, blind2) ==
    LET d_log_proof == DLogProof_prove(secret_share, random)
    IN  [commitments |->
            [pk_commitment |->
                 create_hash_commitment(bytes_compressed_to_big_int(public_share), blind1),
             zk_pok_commitment |->
                 create_hash_commitment(
                     bytes_compressed_to_big_int(d_log_proof.pk_t_rand_commitment), blind2)],
         witness |->
            [pk_commitment_blind_factor |-> blind1,
             zk_pok_blind_factor |-> blind2,
             public_share |-> public_share,
             d_log_proof |-> d_log_proof]]

\* a verifier that runs the Schnorr check before it opens the commitments
DLComZK_verify_proof_first(commitment, witness) ==
    IF DLogProof_verify(witness.d_log_proof, witness.public_share) # "Ok"
    THEN "VrfyDlogFailed"
    ELSE IF create_hash_commitment(bytes_compressed_to_big_int(witness.public_share),
                                   witness.pk_commitment_blind_factor)
              # commitment.pk_commitment
    THEN "OpenDLCommFailed"
    ELSE IF create_hash_commitment(
                bytes_compressed_to_big_int(witness.d_log_proof.pk_t_rand_commitment),
                witness.zk_pok_blind_factor)
              # commitment.zk_pok_commitment
    THEN "OpenCommZKFailed"
    ELSE "Ok"

DLComZK_verify(commitment, witness) ==
    IF create_hash_commitment(bytes_compressed_to_big_int(witness.public_share),
                              witness.pk_commitment_blind_factor)
         # commitment.pk_commitment
    THEN "OpenDLCommFailed"
    ELSE IF create_hash_commitment(
                bytes_compressed_to_big_int(witness.d_log_proof.pk_t_rand_commitment),
                witness.zk_pok_blind_factor)
              # commitment.zk_pok_commitment
    THEN "OpenCommZKFailed"
    ELSE IF DLogProof_verify(witness.d_log_proof, witness.public_share) # "Ok"
    THEN "VrfyDlogFailed"
    ELSE "Ok"

\* the same three checks as verify, on the object's own fields
DLComZK_verify_commitments_and_dlog_proof(self) ==
    DLComZK_verify(self.commitments, self.witness)

EcKeyPair_from_sk(sk) ==
    [secret_share |-> sk, public_share |-> PointMul(GENERATOR, sk)]


(***************************************************************************)
(* Sample sets the random draws (Scalar::random, OsRng) are taken from     *)
(***************************************************************************)
\* MaxSample + 1 scalars spread over Z_Q, zero included
ScalarSample == {(5 * k) % Q : k \in 0 .. MaxSample}
\* the secrets an adversarial peer builds its forged messages from
AdvSecrets == {4}
\* the random nonce of DLogProof::prove
ProofRandom == {3, 8}

Ok(v) == [tag |-> "Ok", v |-> v]
Err(e) == [tag |-> "Err", e |-> e]

\* SendingMessages returned by a handler, Err(kind) or a panic (unwrap)
BroadcastMessage(m) == [kind |-> "BroadcastMessage", msg |-> m]
EmptyMsg == [kind |-> "EmptyMsg"]
KeyGenSuccessWithResult(r) == [kind |-> "KeyGenSuccessWithResult", result |-> r]
SignSuccessWithResult(sig) == [kind |-> "SignSuccessWithResult", signature |-> sig]
ErrReturn(e) == [kind |-> "Err", err |-> e]
Panic == [kind |-> "Panic"]
NoReturn == [kind |-> "NoReturn"]

\* XAXPartyOneMsg / XAXPartyTwoMsg  (message.rs)
KeyGenPartyOneRoundOneMsg(com) == [tag |-> "KeyGenPartyOneRoundOneMsg", com |-> com]
KeyGenPartyOneRoundTwoMsg(wit) == [tag |-> "KeyGenPartyOneRoundTwoMsg", wit |-> wit]
KeyGenPartyTwoRoundOneMsg(m) == [tag |-> "KeyGenPartyTwoRoundOneMsg", body |-> m]
KeyGenFinish == [tag |-> "KeyGenFinish"]

VARIABLES
    p1kg,      \* party_one::KeyGen
    p2kg,      \* party_two::KeyGen
    kgToP1,    \* the message party two's side last sent and party one has not yet taken
    kgToP2,    \* the message party one last sent and party two has not yet taken
    p1kgOut,   \* what party one's last key-generation call returned
    p2kgOut,   \* what party two's last key-generation call returned
    kgHist,    \* history of the key-generation session (calls, errors, order)
    mtaP1,     \* mta::PartyOne of a stand-alone MtA run
    mtaP2,     \* mta::PartyTwo of a stand-alone MtA run
    mtaNet,    \* the two messages of the MtA run and the key pair they use
    mtaPc,     \* how far the MtA run has got
    p1sg,      \* party_one::Sign
    p2sg,      \* party_two::Sign
    sgMta1,    \* the mta::PartyOne handed to party one's msg_handler_sign
    sgMta2,    \* the mta::PartyTwo handed to party two's msg_handler_sign
    sgToP1,    \* the signing message in transit to party one
    sgToP2,    \* the signing message in transit to party two
    p1sgOut,   \* what party one's last signing call returned
    p2sgOut,   \* what party two's last signing call returned
    sgHist,    \* history of the signing session
    pl,        \* a Paillier run: key pair, plaintexts, ciphertexts, decryptions
    bn,        \* a call of the big-integer library: operation, arguments, result
    fc         \* a call of a verifying function: operation, arguments, result

kgVars == <<p1kg, p2kg, kgToP1, kgToP2, p1kgOut, p2kgOut, kgHist>>
mtaVars == <<mtaP1, mtaP2, mtaNet, mtaPc>>
sgVars == <<p1sg, p2sg, sgMta1, sgMta2, sgToP1, sgToP2, p1sgOut, p2sgOut, sgHist>>
libVars == <<pl, bn, fc>>
vars == <<kgVars, mtaVars, sgVars, libVars>>

\* the variables of a protocol that is not running
IdleKeyGen ==
    /\ p1kg = None /\ p2kg = None /\ kgToP1 = None /\ kgToP2 = None
    /\ p1kgOut = NoReturn /\ p2kgOut = NoReturn /\ kgHist = None
IdleMta ==
    /\ mtaP1 = None /\ mtaP2 = None /\ mtaNet = None /\ mtaPc = "idle"
IdleSign ==
    /\ p1sg = None /\ p2sg = None /\ sgMta1 = None /\ sgMta2 = None
    /\ sgToP1 = None /\ sgToP2 = None
    /\ p1sgOut = NoReturn /\ p2sgOut = NoReturn /\ sgHist = None
IdleLib ==
    /\ pl = None /\ bn = None /\ fc = None

(***************************************************************************)
(* party_one::KeyGen                                                       *)
(***************************************************************************)
P1_KeyGen_new(secret_share, random, blind1, blind2, random_scalar) ==
    LET keypair == EcKeyPair_from_sk(secret_share)
        dl_com_zk == DLComZK_new(keypair.secret_share, keypair.public_share,
                                 random, blind1, blind2)
    IN  [keypair |-> keypair,
         dl_com_zk_com |-> dl_com_zk.commitments,
         dl_com_zk_wit |-> dl_com_zk.witness,
         public_share_rec |-> PointMul(GENERATOR, random_scalar)]

P1_generate_first_round_msg(self) == self.dl_com_zk_com

\* the round-one handler with the assignment to public_share_rec left out
P1_get_msg_and_generate_third_roung_msg_no_store(self, received_msg) ==
    IF DLogProof_verify(received_msg.dl_proof, received_msg.public_share) # "Ok"
    THEN [self |-> self, ret |-> Err("VrfyDlogFailed")]
    ELSE [self |-> self, ret |-> Ok(self.dl_com_zk_wit)]

\* the round-one handler with the share recorded before the proof is verified
P1_get_msg_and_generate_third_roung_msg_store_first(self, received_msg) ==
    IF DLogProof_verify(received_msg.dl_proof, received_msg.public_share) # "Ok"
    THEN [self |-> [self EXCEPT !.public_share_rec = received_msg.public_share],
          ret |-> Err("VrfyDlogFailed")]
    ELSE [self |-> [self EXCEPT !.public_share_rec = received_msg.public_share],
          ret |-> Ok(self.dl_com_zk_wit)]

P1_get_msg_and_generate_third_roung_msg(self, received_msg) ==
    IF DLogProof_verify(received_msg.dl_proof, received_msg.public_share) # "Ok"
    THEN [self |-> self, ret |-> Err("VrfyDlogFailed")]
    ELSE [self |-> [self EXCEPT !.public_share_rec = received_msg.public_share],
          ret |-> Ok(self.dl_com_zk_wit)]

P1_generate_key_result(self) ==
    [keypair |-> self.keypair,
     public_signing_key |-> PointAdd(self.public_share_rec, self.keypair.public_share)]

\* process_begin_keygen with index 0
P1_process_begin_keygen(self, index) ==
    IF index = 0
    THEN BroadcastMessage(KeyGenPartyOneRoundOneMsg(P1_generate_first_round_msg(self)))
    ELSE EmptyMsg

P1_msg_handler_keygen(self, msg_received) ==
    IF msg_received.tag = "KeyGenPartyTwoRoundOneMsg"
    THEN LET r == P1_get_msg_and_generate_third_roung_msg(self, msg_received.body)
         IN  IF r.ret.tag = "Err"
             THEN [self |-> r.self, ret |-> ErrReturn(r.ret.e)]
             ELSE [self |-> r.self,
                   ret |-> BroadcastMessage(KeyGenPartyOneRoundTwoMsg(r.ret.v))]
    ELSE IF msg_received.tag = "KeyGenFinish"
    THEN [self |-> self, ret |-> KeyGenSuccessWithResult(P1_generate_key_result(self))]
    ELSE [self |-> self, ret |-> EmptyMsg]

(***************************************************************************)
(* party_two::KeyGen                                                       *)
(***************************************************************************)
P2_KeyGen_new(secret_share, random) ==
    [keypair |-> EcKeyPair_from_sk(secret_share),
     dl_com_zk_com_rec |-> DLCommitments_default,
     dl_com_zk_wit_rec |-> None,
     dlog_proof |-> DLogProof_prove(secret_share, random)]

P2_get_msg_and_generate_second_round_msg(self, dl_com_zk_com_rec) ==
    [self |-> [self EXCEPT !.dl_com_zk_com_rec = dl_com_zk_com_rec],
     ret |-> [public_share |-> self.keypair.public_share,
              dl_proof |-> self.dlog_proof]]

P2_verify_third_roung_msg(self, dl_com_zk_wit) ==
    LET opened == DLComZK_verify(self.dl_com_zk_com_rec, dl_com_zk_wit)
    IN  IF opened # "Ok"
        THEN [self |-> self, ret |-> Err(opened)]
        ELSE IF DLogProof_verify(dl_com_zk_wit.d_log_proof, dl_com_zk_wit.public_share) # "Ok"
        THEN [self |-> self, ret |-> Err("VrfyDlogFailed")]
        ELSE [self |-> [self EXCEPT !.dl_com_zk_wit_rec = Some(dl_com_zk_wit)],
              ret |-> Ok("unit")]

\* called with dl_com_zk_wit_rec = Some(..) only (unwrap)
P2_generate_key_result(self) ==
    [keypair |-> self.keypair,
     public_signing_key |->
         PointAdd(self.keypair.public_share, self.dl_com_zk_wit_rec.v.public_share),
     other_public_key |-> self.dl_com_zk_wit_rec.v.public_share]

P2_msg_handler_keygen(self, msg_received) ==
    IF msg_received.tag = "KeyGenPartyOneRoundOneMsg"
    THEN LET r == P2_get_msg_and_generate_second_round_msg(self, msg_received.com)
         IN  [self |-> r.self,
              ret |-> BroadcastMessage(KeyGenPartyTwoRoundOneMsg(r.ret))]
    ELSE IF msg_received.tag = "KeyGenPartyOneRoundTwoMsg"
    THEN LET r == P2_verify_third_roung_msg(self, msg_received.wit)
         IN  IF r.ret.tag = "Err"
             THEN [self |-> r.self, ret |-> ErrReturn(r.ret.e)]
             ELSE [self |-> r.self,
                   ret |-> KeyGenSuccessWithResult(P2_generate_key_result(r.self))]
    ELSE [self |-> self, ret |-> EmptyMsg]

(***************************************************************************)
(* CL cipher over the class group  (utilities/class_group.rs)              *)
(* A group element is g_q^g * f^f: the exponent g of the generator g_q of  *)
(* the subgroup of unknown order and the exponent f of the element f of    *)
(* order q.                                                                *)
(***************************************************************************)
\* order of g_q in the model's class group
ClassOrder == 3
\* the public bound stilde >= ClassOrder on the order of g_q
Stilde == 4
\* the statistical slack 2^40 of the source, scaled
Slack == 2
\* the challenge space 2^SECURITY_PARAMETER of the source, scaled
ChallengeSpace == 2

ClElem(g, f) == [g |-> g % ClassOrder, f |-> f % Q]
gq == ClElem(1, 0)
ClMul(x, y) == ClElem(x.g + y.g, x.f + y.f)
ClPow(x, n) == ClElem(x.g * n, x.f * n)
ClInv(x) == ClElem(ClassOrder - x.g, Q - x.f)
expo_f(m) == ClElem(0, m)

\* CLGroup::keygen with the secret exponent sk
CLGroup_keygen(sk) == [cl_priv_key |-> sk, cl_pub_key |-> ClPow(gq, sk)]

\* CLGroup::encrypt with randomness r: (c1, c2) = (g_q^r, f^m * pk^r), and r
CLGroup_encrypt(pk, m, r) ==
    [cipher |-> [c1 |-> ClPow(gq, r), c2 |-> ClMul(expo_f(m), ClPow(pk, r))],
     r |-> r]

\* CLGroup::decrypt: the discrete logarithm of c2 / c1^sk to the base f; under
\* a key that does not match, the quotient is no power of f and the result is
\* no plaintext of the ciphertext
CLGroup_decrypt(sk, c) ==
    LET d == ClMul(c.c2, ClInv(ClPow(c.c1, sk)))
    IN  (d.f + d.g) % Q

CLGroup_eval_scal(c, k) == [c1 |-> ClPow(c.c1, k), c2 |-> ClPow(c.c2, k)]
CLGroup_eval_sum(x, y) == [c1 |-> ClMul(x.c1, y.c1), c2 |-> ClMul(x.c2, y.c2)]

(***************************************************************************)
(* CLProof  (utilities/cl_proof.rs)                                        *)
(***************************************************************************)
\* Fiat-Shamir challenge: a fixed function of the transcript, truncated to the
\* challenge space
CLProof_challenge(public_key, t1, t2, ciphertext) ==
    (ciphertext.c1.g + ciphertext.c2.g + ciphertext.c2.f + public_key.g
       + t1.g + 2 * t2.g + t2.f) % ChallengeSpace

\* the exclusive upper bound of r1
CLProof_upper == Stilde * Slack * ChallengeSpace * Slack

CLProof_prove(witness, statement, r1, r2) ==
    LET fr2 == expo_f(r2)
        pkr1 == ClPow(statement.cl_pub_key, r1)
        t2 == ClMul(fr2, pkr1)
        t1 == ClPow(gq, r1)
        k == CLProof_challenge(statement.cl_pub_key, t1, t2, statement.cipher)
    IN  [t1 |-> t1, t2 |-> t2,
         u1 |-> r1 + k * witness.r,
         u2 |-> (r2 + k * witness.x) % Q]

CLProof_verify(proof, statement) ==
    LET k == CLProof_challenge(statement.cl_pub_key, proof.t1, proof.t2, statement.cipher)
        sample_size == Stilde * Slack * ChallengeSpace * (Slack + 1)
        flag1 == ~(proof.u1 > sample_size \/ proof.u1 < 0)
        flag2 == ~(proof.u2 > Q \/ proof.u2 < 0)
        t1c1k == ClMul(proof.t1, ClPow(statement.cipher.c1, k))
        gqu1 == ClPow(gq, proof.u1)
        flag3 == t1c1k = gqu1
        pku1 == ClPow(statement.cl_pub_key, proof.u1)
        fu2 == expo_f(proof.u2)
        t2c2k == ClMul(proof.t2, ClPow(statement.cipher.c2, k))
        flag4 == t2c2k = ClMul(pku1, fu2)
    IN  IF flag1 /\ flag2 /\ flag3 /\ flag4 THEN "Ok" ELSE "VrfyCLProofFailed"

(***************************************************************************)
(* MtA  (mta.rs)                                                           *)
(***************************************************************************)
MtaPartyOne_new(b, keypair, t_b) ==
    [b |-> b, t_b |-> t_b,
     cl_pub_key |-> keypair.cl_pub_key, cl_priv_key |-> keypair.cl_priv_key]

MtaPartyOne_generate_send_msg(self, cl_pk, r, r1, r2) ==
    LET enc == CLGroup_encrypt(cl_pk, self.b, r)
        witness == [x |-> self.b, r |-> enc.r]
        statement == [cipher |-> enc.cipher, cl_pub_key |-> cl_pk]
    IN  [proof |-> CLProof_prove(witness, statement, r1, r2), state |-> statement]

MtaPartyOne_handle_receive_msg(self, cl_sk, c_a) ==
    [self EXCEPT !.t_b = CLGroup_decrypt(cl_sk, c_a)]

MtaPartyTwo_new(a, t_a) == [a |-> a, t_a |-> t_a]

\* t_a is assigned before the proof is verified
\* variant that keeps the mask itself instead of its negation as the share
MtaPartyTwo_receive_and_send_msg_mask_kept(self, mta_msg, alpha_tag, r) ==
    LET self1 == [self EXCEPT !.t_a = alpha_tag]
    IN  IF CLProof_verify(mta_msg.proof, mta_msg.state) # "Ok"
        THEN [self |-> self1, ret |-> Err("verify cl encryption dl proof failed")]
        ELSE LET encrypted_alpha_tag ==
                     CLGroup_encrypt(mta_msg.state.cl_pub_key, alpha_tag, r)
                 a_scal_c_b == CLGroup_eval_scal(mta_msg.state.cipher, self.a)
                 c_a == CLGroup_eval_sum(a_scal_c_b, encrypted_alpha_tag.cipher)
             IN  [self |-> self1, ret |-> Ok(c_a)]

MtaPartyTwo_receive_and_send_msg(self, mta_msg, alpha_tag, r) ==
    LET alpha == ScalarNeg(alpha_tag)
        self1 == [self EXCEPT !.t_a = alpha]
    IN  IF CLProof_verify(mta_msg.proof, mta_msg.state) # "Ok"
        THEN [self |-> self1, ret |-> Err("verify cl encryption dl proof failed")]
        ELSE LET encrypted_alpha_tag ==
                     CLGroup_encrypt(mta_msg.state.cl_pub_key, alpha_tag, r)
                 a_scal_c_b == CLGroup_eval_scal(mta_msg.state.cipher, self.a)
                 c_a == CLGroup_eval_sum(a_scal_c_b, encrypted_alpha_tag.cipher)
             IN  [self |-> self1, ret |-> Ok(c_a)]

(***************************************************************************)
(* Signature  (utilities/signature.rs)                                     *)
(***************************************************************************)
\* class_group::scalar_from_bigint: the integer reduced into the scalar field
scalar_from_bigint(b) == b % Q
scalar_to_bigint(x) == x

Min(a, b) == IF a <= b THEN a ELSE b

\* r is compared with the x-coordinate as an integer, s with q - s
Signature_verify(sig, pubkey, message) ==
    LET s_inv == ScalarInvertOrZero(sig.s)
        u1 == PointMul(GENERATOR, ScalarMul(message, s_inv))
        u2 == PointMul(pubkey, ScalarMul(sig.r, s_inv))
        x == XCoordinate(PointAdd(u1, u2))
    IN  IF x.tag = "None" THEN "VrfyMultiECDSAFailed"
        ELSE IF scalar_to_bigint(sig.r) = x.x
                /\ scalar_to_bigint(sig.s) < Q - scalar_to_bigint(sig.s)
        THEN "Ok"
        ELSE "VrfyMultiECDSAFailed"

(***************************************************************************)
(* party_one::Sign                                                         *)
(***************************************************************************)
PanicRet == [tag |-> "Panic"]

P1_Sign_new(message, online_offline, reshared, nonce, random, r1, r_x) ==
    [dl_com_zk_com_rec |-> DLCommitments_default,
     reshared_keypair |-> EcKeyPair_from_sk(reshared),
     keygen_result |-> None,
     nonce_pair |-> EcKeyPair_from_sk(nonce),
     r1 |-> r1,
     r_x |-> r_x,
     message |-> scalar_from_bigint(message),
     dl_proof |-> DLogProof_prove(nonce, random),
     online_offline |-> online_offline]

P1_load_keygen_result(self, keygen_result) ==
    [self EXCEPT !.keygen_result = Some(keygen_result)]

P1_get_nonce_com(self, dl_com_zk_com_rec) ==
    [self EXCEPT !.dl_com_zk_com_rec = dl_com_zk_com_rec]

\* keygen_result.unwrap() panics while no key result is loaded
P1_generate_mta_consistency(self, t_a) ==
    IF self.keygen_result = None THEN PanicRet
    ELSE Ok([reshared_public_share |-> self.reshared_keypair.public_share,
             r1 |-> self.r1,
             cc |-> ScalarSub(
                        ScalarAdd(t_a, ScalarMul(self.reshared_keypair.secret_share, self.r1)),
                        self.keygen_result.v.keypair.secret_share)])

P1_generate_nonce_ke_msg(self) ==
    [nonce_public_key |-> self.nonce_pair.public_share, dl_proof |-> self.dl_proof]

P1_verify_nonce_ke_msg(self, nonce_ke_rec) ==
    LET opened == DLComZK_verify(self.dl_com_zk_com_rec, nonce_ke_rec)
        r == PointAdd(PointMul(nonce_ke_rec.public_share, self.nonce_pair.secret_share),
                      PointMul(GENERATOR,
                               ScalarMul(self.nonce_pair.secret_share, self.r1)))
        x == XCoordinate(r)
    IN  IF opened # "Ok" THEN [self |-> self, ret |-> Err(opened)]
        ELSE IF DLogProof_verify(nonce_ke_rec.d_log_proof, nonce_ke_rec.public_share) # "Ok"
        THEN [self |-> self, ret |-> Err("VrfyDlogFailed")]
        ELSE IF x.tag = "None" THEN [self |-> self, ret |-> Err("XcoorNone")]
        ELSE [self |-> [self EXCEPT !.r_x = scalar_from_bigint(x.x)], ret |-> Ok("unit")]

\* Err(VrfyMultiECDSAFailed) when the assembled signature does not verify;
\* keygen_result.unwrap() panics while no key result is loaded
P1_online_sign(self, s2_rec) ==
    LET s_tag == ScalarMul(ScalarInvertOrZero(self.nonce_pair.secret_share),
                           ScalarAdd(s2_rec,
                                     ScalarMul(self.r_x, self.reshared_keypair.secret_share)))
        s_tag_bigint == scalar_to_bigint(s_tag)
        s == Min(s_tag_bigint, Q - s_tag_bigint)
        signature == [r |-> self.r_x, s |-> scalar_from_bigint(s)]
    IN  IF self.keygen_result = None THEN PanicRet
        ELSE LET v == Signature_verify(signature,
                                       self.keygen_result.v.public_signing_key,
                                       self.message)
             IN  IF v # "Ok" THEN Err(v) ELSE Ok(signature)

\* XAXPartyTwoMsg / XAXPartyOneMsg of the signing protocol  (message.rs)
SignPartyTwoRoundOneMsg(com) == [tag |-> "SignPartyTwoRoundOneMsg", com |-> com]
MtaPartyTwoRoundOneMsg(c) == [tag |-> "MtaPartyTwoRoundOneMsg", cipher |-> c]
SignPartyTwoRoundTwoMsg(wit, s_2) ==
    [tag |-> "SignPartyTwoRoundTwoMsg", wit |-> wit, s_2 |-> s_2]
SignPartyTwoRoundTwoMsgOnline(wit) == [tag |-> "SignPartyTwoRoundTwoMsgOnline", wit |-> wit]
SignPartyTwoRoundThreeMsgOnline(s_2) ==
    [tag |-> "SignPartyTwoRoundThreeMsgOnline", s_2 |-> s_2]
MtaPartyOneRoundOneMsg(m) == [tag |-> "MtaPartyOneRoundOneMsg", first |-> m]
SignPartyOneRoundOneMsg(cons, ke) ==
    [tag |-> "SignPartyOneRoundOneMsg", cons |-> cons, ke |-> ke]

\* party one's msg_handler_sign; draws holds the randomness r, r1, r2 of the
\* MtA first message. A failing unwrap() is a panic.
P1_msg_handler_sign(self, msg_received, mta_party_one, draws) ==
    IF msg_received.tag = "SignPartyTwoRoundOneMsg"
    THEN [self |-> P1_get_nonce_com(self, msg_received.com),
          mta |-> mta_party_one,
          ret |-> BroadcastMessage(MtaPartyOneRoundOneMsg(
                      MtaPartyOne_generate_send_msg(mta_party_one, mta_party_one.cl_pub_key,
                                                    draws.r, draws.r1, draws.r2)))]
    ELSE IF msg_received.tag = "MtaPartyTwoRoundOneMsg"
    THEN LET mta1 == MtaPartyOne_handle_receive_msg(mta_party_one, mta_party_one.cl_priv_key,
                                                    msg_received.cipher)
             cons == P1_generate_mta_consistency(self, mta1.t_b)
         IN  IF cons.tag = "Panic"
             THEN [self |-> self, mta |-> mta1, ret |-> Panic]
             ELSE [self |-> self, mta |-> mta1,
                   ret |-> BroadcastMessage(
                       SignPartyOneRoundOneMsg(cons.v, P1_generate_nonce_ke_msg(self)))]
    ELSE IF msg_received.tag = "SignPartyTwoRoundTwoMsg"
    THEN LET v == P1_verify_nonce_ke_msg(self, msg_received.wit)
             sig == P1_online_sign(v.self, msg_received.s_2)
         IN  IF v.ret.tag # "Ok" \/ sig.tag # "Ok"
             THEN [self |-> v.self, mta |-> mta_party_one, ret |-> Panic]
             ELSE [self |-> v.self, mta |-> mta_party_one,
                   ret |-> SignSuccessWithResult(sig.v)]
    ELSE IF msg_received.tag = "SignPartyTwoRoundTwoMsgOnline"
    THEN LET v == P1_verify_nonce_ke_msg(self, msg_received.wit)
         IN  IF v.ret.tag # "Ok"
             THEN [self |-> v.self, mta |-> mta_party_one, ret |-> Panic]
             ELSE [self |-> v.self, mta |-> mta_party_one, ret |-> EmptyMsg]
    ELSE IF msg_received.tag = "SignPartyTwoRoundThreeMsgOnline"
    THEN LET sig == P1_online_sign(self, msg_received.s_2)
         IN  IF sig.tag # "Ok"
             THEN [self |-> self, mta |-> mta_party_one, ret |-> Panic]
             ELSE [self |-> self, mta |-> mta_party_one,
                   ret |-> SignSuccessWithResult(sig.v)]
    ELSE [self |-> self, mta |-> mta_party_one, ret |-> EmptyMsg]

(***************************************************************************)
(* party_two::Sign                                                         *)
(***************************************************************************)
P2_Sign_new(message, online_offline, nonce, random, blind1, blind2, reshared_secret_share, r1_rec, r_x) ==
    LET nonce_pair == EcKeyPair_from_sk(nonce)
    IN  [nonce_pair |-> nonce_pair,
         dl_com_zk_com |-> DLComZK_new(nonce_pair.secret_share, nonce_pair.public_share,
                                       random, blind1, blind2),
         keygen_result |-> None,
         message |-> scalar_from_bigint(message),
         reshared_secret_share |-> reshared_secret_share,
         r1_rec |-> r1_rec,
         r_x |-> r_x,
         online_offline |-> online_offline,
         msg_set |-> FALSE]

P2_generate_nonce_com(self) == self.dl_com_zk_com.commitments

\* keygen_result.unwrap() panics while no key result is loaded
\* variant that adds cc to the reshared secret instead of subtracting it
P2_verify_generate_mta_consistency_cc_added(self, t_b, mta_consis_rec) ==
    IF self.keygen_result = None THEN [self |-> self, ret |-> PanicRet]
    ELSE IF PointMul(GENERATOR, ScalarAdd(t_b, mta_consis_rec.cc))
              # PointSub(PointMul(mta_consis_rec.reshared_public_share,
                                  ScalarAdd(mta_consis_rec.r1, self.nonce_pair.secret_share)),
                         self.keygen_result.v.other_public_key)
    THEN [self |-> self, ret |-> Err("Verify Mta Consistency Failed")]
    ELSE [self |-> [self EXCEPT
                       !.reshared_secret_share =
                           ScalarAdd(ScalarSub(self.keygen_result.v.keypair.secret_share, t_b),
                                     mta_consis_rec.cc),
                       !.r1_rec = mta_consis_rec.r1],
          ret |-> Ok("unit")]

\* variant that records r1 before it checks the equation
P2_verify_generate_mta_consistency_r1_first(self, t_b, mta_consis_rec) ==
    IF self.keygen_result = None THEN [self |-> self, ret |-> PanicRet]
    ELSE IF PointMul(GENERATOR, ScalarAdd(t_b, mta_consis_rec.cc))
              # PointSub(PointMul(mta_consis_rec.reshared_public_share,
                                  ScalarAdd(mta_consis_rec.r1, self.nonce_pair.secret_share)),
                         self.keygen_result.v.other_public_key)
    THEN [self |-> [self EXCEPT !.r1_rec = mta_consis_rec.r1],
          ret |-> Err("Verify Mta Consistency Failed")]
    ELSE [self |-> [self EXCEPT
                       !.reshared_secret_share =
                           ScalarSub(ScalarSub(self.keygen_result.v.keypair.secret_share, t_b),
                                     mta_consis_rec.cc),
                       !.r1_rec = mta_consis_rec.r1],
          ret |-> Ok("unit")]

P2_verify_generate_mta_consistency(self, t_b, mta_consis_rec) ==
    IF self.keygen_result = None THEN [self |-> self, ret |-> PanicRet]
    ELSE IF PointMul(GENERATOR, ScalarAdd(t_b, mta_consis_rec.cc))
              # PointSub(PointMul(mta_consis_rec.reshared_public_share,
                                  ScalarAdd(mta_consis_rec.r1, self.nonce_pair.secret_share)),
                         self.keygen_result.v.other_public_key)
    THEN [self |-> self, ret |-> Err("Verify Mta Consistency Failed")]
    ELSE [self |-> [self EXCEPT
                       !.reshared_secret_share =
                           ScalarSub(ScalarSub(self.keygen_result.v.keypair.secret_share, t_b),
                                     mta_consis_rec.cc),
                       !.r1_rec = mta_consis_rec.r1],
          ret |-> Ok("unit")]

P2_verify_send_nonce_ke_msg(self, nonce_ke_rec) ==
    LET r == PointMul(nonce_ke_rec.nonce_public_key,
                      ScalarAdd(self.r1_rec, self.nonce_pair.secret_share))
        x == XCoordinate(r)
    IN  IF DLogProof_verify(nonce_ke_rec.dl_proof, nonce_ke_rec.nonce_public_key) # "Ok"
        THEN [self |-> self, ret |-> Err("Verify DLog failed")]
        ELSE IF x.tag = "None" THEN [self |-> self, ret |-> Err("get x coor failed")]
        ELSE [self |-> [self EXCEPT !.r_x = scalar_from_bigint(x.x)],
              ret |-> Ok(self.dl_com_zk_com.witness)]

P2_online_sign(self) ==
    ScalarMul(ScalarInvertOrZero(ScalarAdd(self.r1_rec, self.nonce_pair.secret_share)),
              ScalarAdd(self.message, ScalarMul(self.r_x, self.reshared_secret_share)))

P2_set_msg(self, message) ==
    [self EXCEPT !.message = scalar_from_bigint(message), !.msg_set = TRUE]

P2_load_keygen_result(self, keygen_result) ==
    [self EXCEPT !.keygen_result = Some(keygen_result)]

\* process_begin_sign with index 1
P2_process_begin_sign(self, index) ==
    IF index = 1
    THEN BroadcastMessage(SignPartyTwoRoundOneMsg(P2_generate_nonce_com(self)))
    ELSE EmptyMsg

P2_process_begin_sign_online(self, index) ==
    IF index = 1
    THEN IF self.msg_set = TRUE
         THEN BroadcastMessage(SignPartyTwoRoundThreeMsgOnline(P2_online_sign(self)))
         ELSE EmptyMsg
    ELSE EmptyMsg

\* party two's msg_handler_sign; draws holds alpha_tag and the encryption
\* randomness of the MtA reply. A failing unwrap() is a panic.
P2_msg_handler_sign(self, msg_received, mta_party_two, draws) ==
    IF msg_received.tag = "MtaPartyOneRoundOneMsg"
    THEN LET res == MtaPartyTwo_receive_and_send_msg(mta_party_two, msg_received.first,
                                                    draws.alpha_tag, draws.r)
         IN  IF res.ret.tag # "Ok"
             THEN [self |-> self, mta |-> res.self, ret |-> Panic]
             ELSE [self |-> self, mta |-> res.self,
                   ret |-> BroadcastMessage(MtaPartyTwoRoundOneMsg(res.ret.v))]
    ELSE IF msg_received.tag = "SignPartyOneRoundOneMsg"
    THEN LET c == P2_verify_generate_mta_consistency(self, mta_party_two.t_a,
                                                    msg_received.cons)
             k == P2_verify_send_nonce_ke_msg(c.self, msg_received.ke)
         IN  IF c.ret.tag # "Ok"
             THEN [self |-> c.self, mta |-> mta_party_two, ret |-> Panic]
             ELSE IF k.ret.tag # "Ok"
             THEN [self |-> k.self, mta |-> mta_party_two, ret |-> Panic]
             ELSE IF k.self.online_offline
             THEN [self |-> k.self, mta |-> mta_party_two,
                   ret |-> BroadcastMessage(SignPartyTwoRoundTwoMsgOnline(k.ret.v))]
             ELSE [self |-> k.self, mta |-> mta_party_two,
                   ret |-> BroadcastMessage(
                               SignPartyTwoRoundTwoMsg(k.ret.v, P2_online_sign(k.self)))]
    ELSE [self |-> self, mta |-> mta_party_two, ret |-> EmptyMsg]

(***************************************************************************)
(* Key-generation session: both parties, the transport between them and a  *)
(* peer that may send any message at any time                              *)
(***************************************************************************)
\* a message of the signing protocol, which the key-generation handlers ignore
OtherMsg == [tag |-> "Other"]

\* a round-one body party two's side can forge: a proved share of its own
\* choice, or one whose proof does not verify
ForgedSecRoungMsg ==
    {[public_share |-> PointMul(GENERATOR, a), dl_proof |-> DLogProof_prove(a, r)] :
        a \in AdvSecrets, r \in {1}}
    \cup
    {[public_share |-> PointMul(GENERATOR, a),
      dl_proof |-> [DLogProof_prove(a, 1) EXCEPT
                        !.challenge_response = ScalarAdd(@, 1)]] : a \in AdvSecrets}

ForgedToP1KeyGen ==
    {KeyGenPartyTwoRoundOneMsg(b) : b \in ForgedSecRoungMsg}
    \cup {KeyGenFinish, OtherMsg}

\* the commit-and-prove values party one's side can forge
ForgedDLComZK ==
    {DLComZK_new(a, PointMul(GENERATOR, a), 1, 0, 0) : a \in AdvSecrets}

ForgedToP2KeyGen ==
    {KeyGenPartyOneRoundOneMsg(d.commitments) : d \in ForgedDLComZK}
    \cup {KeyGenPartyOneRoundTwoMsg(d.witness) : d \in ForgedDLComZK}
    \cup {KeyGenPartyOneRoundTwoMsg(
              [d.witness EXCEPT !.d_log_proof.challenge_response = ScalarAdd(@, 1)]) :
          d \in ForgedDLComZK}
    \cup {OtherMsg}

InboxOf(channel, forged) ==
    (IF channel = None THEN {} ELSE {channel}) \cup forged

InitKeyGen ==
    /\ p1kg \in {P1_KeyGen_new(x, r, b1, b2, j) :
                    x \in ScalarSample, r \in ProofRandom,
                    b1 \in Blind, b2 \in {0}, j \in {6}}
    /\ p2kg \in {P2_KeyGen_new(x, r) : x \in {9, 0}, r \in {2}}
    /\ kgToP1 = None
    /\ kgToP2 = None
    /\ p1kgOut = NoReturn
    /\ p2kgOut = NoReturn
    /\ IdleMta
    /\ IdleSign
    /\ IdleLib
    /\ kgHist = [begun |-> FALSE, honest |-> TRUE, calls |-> 0,
                 p1erred |-> FALSE, p2erred |-> FALSE, p1verified |-> FALSE,
                 p2firstCom |-> None, last |-> "none"]

\* party one's process_begin_keygen(0): the commitment goes out
KG_P1_process_begin_keygen ==
    /\ ~kgHist.begun
    /\ p1kgOut' = P1_process_begin_keygen(p1kg, 0)
    /\ kgToP2' = p1kgOut'.msg
    /\ kgHist' = [kgHist EXCEPT !.begun = TRUE, !.last = "P1begin"]
    /\ UNCHANGED <<p1kg, p2kg, kgToP1, p2kgOut, mtaVars, sgVars, libVars>>

\* party one's msg_handler_keygen on the message in transit or on a forged one
KG_P1_msg_handler_keygen ==
    /\ kgHist.calls < MaxCalls
    /\ \E msg \in InboxOf(kgToP1, ForgedToP1KeyGen) :
         LET r == P1_msg_handler_keygen(p1kg, msg)
             genuine == msg = kgToP1
         IN  /\ p1kg' = r.self
             /\ p1kgOut' = r.ret
             /\ kgToP1' = IF genuine THEN None ELSE kgToP1
             /\ kgToP2' = IF r.ret.kind = "BroadcastMessage" THEN r.ret.msg ELSE kgToP2
             /\ kgHist' = [kgHist EXCEPT
                    !.calls = @ + 1,
                    !.last = "P1",
                    !.honest = @ /\ genuine,
                    !.p1erred = @ \/ r.ret.kind = "Err",
                    !.p1verified = @ \/ (msg.tag = "KeyGenPartyTwoRoundOneMsg"
                                         /\ r.ret.kind = "BroadcastMessage")]
    /\ UNCHANGED <<p2kg, p2kgOut, mtaVars, sgVars, libVars>>

\* party two's msg_handler_keygen; on success its side sends KeyGenFinish
KG_P2_msg_handler_keygen ==
    /\ kgHist.calls < MaxCalls
    /\ \E msg \in InboxOf(kgToP2, ForgedToP2KeyGen) :
         LET r == P2_msg_handler_keygen(p2kg, msg)
             genuine == msg = kgToP2
         IN  /\ p2kg' = r.self
             /\ p2kgOut' = r.ret
             /\ kgToP2' = IF genuine THEN None ELSE kgToP2
             /\ kgToP1' = IF r.ret.kind = "BroadcastMessage" THEN r.ret.msg
                          ELSE IF r.ret.kind = "KeyGenSuccessWithResult" THEN KeyGenFinish
                          ELSE kgToP1
             /\ kgHist' = [kgHist EXCEPT
                    !.calls = @ + 1,
                    !.last = "P2",
                    !.honest = @ /\ genuine,
                    !.p2erred = @ \/ r.ret.kind = "Err",
                    !.p2firstCom = IF @ = None /\ msg.tag = "KeyGenPartyOneRoundOneMsg"
                                   THEN Some(msg.com) ELSE @]
    /\ UNCHANGED <<p1kg, p1kgOut, mtaVars, sgVars, libVars>>

NextKeyGen ==
    \/ KG_P1_process_begin_keygen
    \/ KG_P1_msg_handler_keygen
    \/ KG_P2_msg_handler_keygen

SpecKeyGen == InitKeyGen /\ [][NextKeyGen]_vars

(***************************************************************************)
(* A stand-alone MtA run (test.rs, mta_test): party one holds b, party two *)
(* holds a; the key pair of the exchange comes from CLGroup::keygen        *)
(***************************************************************************)
\* secret exponents CLGroup::keygen is taken to draw
ClSecrets == {1, 2}
\* encryption randomness
ClRandom == {1, 5}
\* the draws r1 < CLProof_upper and r2 < Q of CLProof::prove
ClProofR1 == {0, CLProof_upper - 1}
ClProofR2 == {Q - 1}

InitMta ==
    /\ IdleKeyGen
    /\ IdleSign
    /\ IdleLib
    /\ mtaP1 \in {MtaPartyOne_new(b, CLGroup_keygen(sk), t) :
                     b \in Scalar, sk \in ClSecrets, t \in {7}}
    /\ mtaP2 \in {MtaPartyTwo_new(a, t) : a \in Scalar, t \in {7}}
    /\ mtaNet \in {[keypair |-> CLGroup_keygen(sk), first |-> None, second |-> None,
                    matching |-> TRUE] : sk \in ClSecrets}
    /\ mtaPc = "start"

\* PartyOne::generate_send_msg(&cl_pub_key)
Mta_generate_send_msg ==
    /\ mtaPc = "start"
    /\ \E r \in ClRandom, r1 \in ClProofR1, r2 \in ClProofR2 :
         mtaNet' = [mtaNet EXCEPT !.first =
             Some(MtaPartyOne_generate_send_msg(mtaP1, mtaNet.keypair.cl_pub_key, r, r1, r2))]
    /\ mtaPc' = "sent"
    /\ UNCHANGED <<mtaP1, mtaP2, kgVars, sgVars, libVars>>

\* the first message may reach party two with its response u2 changed
MtaFirstAsReceived(m) ==
    {m, [m EXCEPT !.proof.u2 = (@ + 1) % Q]}

\* PartyTwo::receive_and_send_msg
Mta_receive_and_send_msg ==
    /\ mtaPc = "sent"
    /\ \E m \in MtaFirstAsReceived(mtaNet.first.v), alpha_tag \in ScalarSample,
          r \in ClRandom :
         LET res == MtaPartyTwo_receive_and_send_msg(mtaP2, m, alpha_tag, r)
         IN  /\ mtaP2' = res.self
             /\ IF res.ret.tag = "Ok"
                THEN /\ mtaNet' = [mtaNet EXCEPT !.second = Some(res.ret.v)]
                     /\ mtaPc' = "replied"
                ELSE /\ mtaNet' = mtaNet
                     /\ mtaPc' = "rejected"
    /\ UNCHANGED <<mtaP1, kgVars, sgVars, libVars>>

\* PartyOne::handle_receive_msg(&cl_priv_key, ..), with the key of the
\* exchange or with another one
Mta_handle_receive_msg ==
    /\ mtaPc = "replied"
    /\ \E sk \in ClSecrets :
         /\ mtaP1' = MtaPartyOne_handle_receive_msg(mtaP1, sk, mtaNet.second.v)
         /\ mtaNet' = [mtaNet EXCEPT !.matching = sk = mtaNet.keypair.cl_priv_key]
    /\ mtaPc' = "done"
    /\ UNCHANGED <<mtaP2, kgVars, sgVars, libVars>>

NextMta ==
    \/ Mta_generate_send_msg
    \/ Mta_receive_and_send_msg
    \/ Mta_handle_receive_msg

SpecMta == InitMta /\ [][NextMta]_vars

\* C2: MtA correctness: for all scalars a and b, after generate_send_msg,
\* receive_and_send_msg (proof accepted) and handle_receive_msg with the
\* matching secret key, t_a + t_b = a * b (mod q).
C2_MtaCorrect ==
    mtaPc = "done" /\ mtaNet.matching =>
        ScalarAdd(mtaP2.t_a, mtaP1.t_b) = ScalarMul(mtaP2.a, mtaP1.b)

\* a completed run with non-trivial factors, mask and ciphertext randomness
C2_Witness ==
    /\ mtaPc = "done" /\ mtaNet.matching
    /\ mtaP2.a > 1 /\ mtaP1.b > 1 /\ mtaP2.t_a # 0
    /\ mtaNet.second.v.c1.g # 0

(***************************************************************************)
(* Signing session: both parties with the key results of an honest key     *)
(* generation, the transport between them, and a peer that may deliver up  *)
(* to sgHist.budget forged messages                                        *)
(***************************************************************************)
\* the key results of an honest key generation with the shares x1 and x2
P1_KeyGenResult(x1, x2) ==
    P1_generate_key_result(
        [keypair |-> EcKeyPair_from_sk(x1), public_share_rec |-> PointMul(GENERATOR, x2)])

P2_KeyGenResult(x1, x2) ==
    P2_generate_key_result(
        [keypair |-> EcKeyPair_from_sk(x2),
         dl_com_zk_wit_rec |-> Some([public_share |-> PointMul(GENERATOR, x1)])])

\* the draws the handlers make (OsRng): one CL key, encryption randomness and
\* proof nonces for party one, the mask alpha_tag for party two
SignDrawsP1 == {[r |-> 1, r1 |-> 5, r2 |-> 3]}
SignDrawsP2 == {[alpha_tag |-> 6, r |-> 2]}

ForgedToP1Sign(mta) ==
    LET adv == DLComZK_new(4, PointMul(GENERATOR, 4), 1, 0, 0)
    IN  {SignPartyTwoRoundOneMsg(adv.commitments),
         MtaPartyTwoRoundOneMsg(CLGroup_encrypt(mta.cl_pub_key, 3, 1).cipher),
         SignPartyTwoRoundTwoMsg(adv.witness, 5),
         SignPartyTwoRoundThreeMsgOnline(5),
         OtherMsg}

ForgedToP2Sign ==
    LET advMta == MtaPartyOne_new(4, CLGroup_keygen(1), 0)
        first == MtaPartyOne_generate_send_msg(advMta, advMta.cl_pub_key, 1, 2, 3)
    IN  {MtaPartyOneRoundOneMsg(first),
         MtaPartyOneRoundOneMsg([first EXCEPT !.proof.u2 = (@ + 1) % Q]),
         SignPartyOneRoundOneMsg([reshared_public_share |-> PointMul(GENERATOR, 4),
                                  r1 |-> 1, cc |-> 2],
                                 [nonce_public_key |-> PointMul(GENERATOR, 4),
                                  dl_proof |-> DLogProof_prove(4, 1)]),
         OtherMsg}

\* the message party one's signing session expects in each state
ExpectedByP1(phase) ==
    IF phase = "WAIT_NONCE_COM" THEN {"SignPartyTwoRoundOneMsg"}
    ELSE IF phase = "WAIT_MTA_REPLY" THEN {"MtaPartyTwoRoundOneMsg"}
    ELSE IF phase = "WAIT_OPEN" THEN {"SignPartyTwoRoundTwoMsg", "SignPartyTwoRoundTwoMsgOnline"}
    ELSE IF phase = "WAIT_S2" THEN {"SignPartyTwoRoundThreeMsgOnline"}
    ELSE {}

NextPhaseP1(phase, tag) ==
    IF phase = "WAIT_NONCE_COM" THEN "WAIT_MTA_REPLY"
    ELSE IF phase = "WAIT_MTA_REPLY" THEN "WAIT_OPEN"
    ELSE IF phase = "WAIT_OPEN" /\ tag = "SignPartyTwoRoundTwoMsgOnline" THEN "WAIT_S2"
    ELSE "DONE"

InitSignWith(X1, X2, K1, RHO1, RHO2, R1, R1REC, M, OO, budget, online) ==
    /\ IdleKeyGen
    /\ IdleMta
    /\ IdleLib
    /\ \E x1 \in X1, x2 \in X2, k1 \in K1, rho1 \in RHO1, rho2 \in RHO2, r1 \in R1,
          r1_rec \in R1REC, m \in M, oo \in OO :
         /\ p1sg = P1_Sign_new(m, oo, k1, rho1, 3, r1, 7)
         /\ p2sg = P2_Sign_new(m, oo, rho2, 8, 1, 0, 7, r1_rec, 9)
         /\ sgMta1 = MtaPartyOne_new(k1, CLGroup_keygen(2), 7)
         /\ sgMta2 = MtaPartyTwo_new(rho2, 7)
         /\ sgHist = [x1 |-> x1, x2 |-> x2, m |-> m, budget |-> budget, online |-> online,
                      honest |-> TRUE, begun |-> FALSE, setmsgs |-> 0, onlines |-> 0,
                      p2sigs |-> {},
                      p1dead |-> FALSE, p2dead |-> FALSE,
                      p1gotNonceCom |-> FALSE, p1phase |-> "WAIT_NONCE_COM",
                      p1offseq |-> FALSE, p1final |-> FALSE, p2accepted |-> FALSE]
    /\ sgToP1 = None
    /\ sgToP2 = None
    /\ p1sgOut = NoReturn
    /\ p2sgOut = NoReturn

\* load_keygen_result of party one with its key result
SG_P1_load_keygen_result ==
    /\ p1sg.keygen_result = None /\ ~sgHist.p1dead
    /\ p1sg' = P1_load_keygen_result(p1sg, P1_KeyGenResult(sgHist.x1, sgHist.x2))
    /\ sgHist' = [sgHist EXCEPT !.honest = @ /\ ~sgHist.begun]
    /\ UNCHANGED <<p2sg, sgMta1, sgMta2, sgToP1, sgToP2, p1sgOut, p2sgOut, kgVars, mtaVars, libVars>>

\* load_keygen_result of party two with its key result
SG_P2_load_keygen_result ==
    /\ p2sg.keygen_result = None /\ ~sgHist.p2dead
    /\ p2sg' = P2_load_keygen_result(p2sg, P2_KeyGenResult(sgHist.x1, sgHist.x2))
    /\ sgHist' = [sgHist EXCEPT !.honest = @ /\ ~sgHist.begun]
    /\ UNCHANGED <<p1sg, sgMta1, sgMta2, sgToP1, sgToP2, p1sgOut, p2sgOut, kgVars, mtaVars, libVars>>

\* party two's process_begin_sign(1): the nonce commitment goes out
SG_P2_process_begin_sign ==
    /\ ~sgHist.begun /\ ~sgHist.p2dead
    /\ p2sgOut' = P2_process_begin_sign(p2sg, 1)
    /\ sgToP1' = p2sgOut'.msg
    /\ sgHist' = [sgHist EXCEPT !.begun = TRUE]
    /\ UNCHANGED <<p1sg, p2sg, sgMta1, sgMta2, sgToP2, p1sgOut, kgVars, mtaVars, libVars>>

\* party one's msg_handler_sign on the message in transit or on a forged one
SG_P1_msg_handler_sign ==
    /\ ~sgHist.p1dead
    /\ \E msg \in InboxOf(sgToP1, IF sgHist.budget > 0 THEN ForgedToP1Sign(sgMta1) ELSE {}),
          draws \in SignDrawsP1 :
         LET r == P1_msg_handler_sign(p1sg, msg, sgMta1, draws)
             genuine == msg = sgToP1
             expected == msg.tag \in ExpectedByP1(sgHist.p1phase)
             good == r.ret.kind \notin {"Err", "Panic"}
         IN  /\ p1sg' = r.self
             /\ sgMta1' = r.mta
             /\ p1sgOut' = r.ret
             /\ sgToP1' = IF genuine THEN None ELSE sgToP1
             /\ sgToP2' = IF r.ret.kind = "BroadcastMessage" THEN r.ret.msg ELSE sgToP2
             /\ sgHist' = [sgHist EXCEPT
                    !.budget = IF genuine THEN @ ELSE @ - 1,
                    !.honest = @ /\ genuine,
                    !.p1dead = r.ret.kind = "Panic",
                    !.p1gotNonceCom = @ \/ msg.tag = "SignPartyTwoRoundOneMsg",
                    !.p1offseq = ~expected,
                    !.p1phase = IF expected /\ good THEN NextPhaseP1(@, msg.tag) ELSE @,
                    !.p1final = @ \/ msg.tag \in {"SignPartyTwoRoundTwoMsg",
                                                  "SignPartyTwoRoundThreeMsgOnline"}]
    /\ UNCHANGED <<p2sg, sgMta2, p2sgOut, kgVars, mtaVars, libVars>>

\* party two's msg_handler_sign on the message in transit or on a forged one
SG_P2_msg_handler_sign ==
    /\ ~sgHist.p2dead
    /\ \E msg \in InboxOf(sgToP2, IF sgHist.budget > 0 THEN ForgedToP2Sign ELSE {}),
          draws \in SignDrawsP2 :
         LET r == P2_msg_handler_sign(p2sg, msg, sgMta2, draws)
             genuine == msg = sgToP2
         IN  /\ p2sg' = r.self
             /\ sgMta2' = r.mta
             /\ p2sgOut' = r.ret
             /\ sgToP2' = IF genuine THEN None ELSE sgToP2
             /\ sgToP1' = IF r.ret.kind = "BroadcastMessage" THEN r.ret.msg ELSE sgToP1
             /\ sgHist' = [sgHist EXCEPT
                    !.budget = IF genuine THEN @ ELSE @ - 1,
                    !.honest = @ /\ genuine,
                    !.p2dead = r.ret.kind = "Panic",
                    !.p2sigs = IF r.ret.kind = "BroadcastMessage"
                                  /\ r.ret.msg.tag = "SignPartyTwoRoundTwoMsg"
                               THEN @ \cup {[m |-> r.self.message, s_2 |-> r.ret.msg.s_2]}
                               ELSE @,
                    !.p2accepted = @ \/ (msg.tag = "SignPartyOneRoundOneMsg"
                                         /\ r.ret.kind = "BroadcastMessage")]
    /\ UNCHANGED <<p1sg, sgMta1, p1sgOut, kgVars, mtaVars, libVars>>

\* party two's set_msg, with the message of the session or with another one
SG_P2_set_msg ==
    /\ sgHist.setmsgs < sgHist.online /\ ~sgHist.p2dead
    /\ \E m \in {sgHist.m, (sgHist.m + 1) % Q} :
         /\ p2sg' = P2_set_msg(p2sg, m)
         /\ sgHist' = [sgHist EXCEPT
                !.setmsgs = @ + 1,
                !.honest = @ /\ m = sgHist.m /\ ~p2sg.msg_set]
    /\ UNCHANGED <<p1sg, sgMta1, sgMta2, sgToP1, sgToP2, p1sgOut, p2sgOut, kgVars, mtaVars, libVars>>

\* party two's process_begin_sign_online(1)
SG_P2_process_begin_sign_online ==
    /\ sgHist.onlines < sgHist.online /\ ~sgHist.p2dead
    /\ p2sgOut' = P2_process_begin_sign_online(p2sg, 1)
    /\ sgToP1' = IF p2sgOut'.kind = "BroadcastMessage" THEN p2sgOut'.msg ELSE sgToP1
    /\ sgHist' = [sgHist EXCEPT
           !.onlines = @ + 1,
           !.p2sigs = IF p2sgOut'.kind = "BroadcastMessage"
                      THEN @ \cup {[m |-> p2sg.message, s_2 |-> p2sgOut'.msg.s_2]}
                      ELSE @,
           !.honest = @ /\ sgHist.onlines = 0 /\ sgHist.p2accepted /\ sgToP1 = None
                        /\ p2sg.online_offline]
    /\ UNCHANGED <<p1sg, p2sg, sgMta1, sgMta2, sgToP2, p1sgOut, kgVars, mtaVars, libVars>>

NextSign ==
    \/ SG_P1_load_keygen_result
    \/ SG_P2_load_keygen_result
    \/ SG_P2_process_begin_sign
    \/ SG_P1_msg_handler_sign
    \/ SG_P2_msg_handler_sign
    \/ SG_P2_set_msg
    \/ SG_P2_process_begin_sign_online

\* sessions in which a peer may forge messages
InitSign ==
    InitSignWith({3}, {5}, {2}, {4}, {6}, {3}, {2, 7}, {1}, BOOLEAN, MaxForged, 1)

SpecSign == InitSign /\ [][NextSign]_vars

\* sessions in which every message is the peer's own
InitSignHonest ==
    InitSignWith({3}, ScalarSample, {2, 11}, {4, 7}, {1, 6}, {0, 3, 12}, {2}, {1, 9}, BOOLEAN, 0, 1)

SpecSignHonest == InitSignHonest /\ [][NextSign]_vars

\* sessions of honest peers in which party two's application may call set_msg
\* and process_begin_sign_online more than once
InitSignRepeat ==
    InitSignWith({3}, {5}, {2}, {4}, {6}, {3}, {2}, {1, 9}, BOOLEAN, 0, MaxOnline)

SpecSignRepeat == InitSignRepeat /\ [][NextSign]_vars

(***************************************************************************)
(* Claims about key generation                                             *)
(***************************************************************************)
\* every delivery so far was the peer's own message, and both parties hold a
\* key result
KeyGenHonestDone ==
    /\ kgHist.honest
    /\ p1kgOut.kind = "KeyGenSuccessWithResult"
    /\ p2kgOut.kind = "KeyGenSuccessWithResult"

\* C3: after an honest key-generation exchange both parties' generate_key_result
\* return the same public_signing_key = X1 + X2, and party two's result satisfies
\* public_signing_key = G * secret_share + other_public_key.
C3_KeyGenAgreement ==
    KeyGenHonestDone =>
        /\ p1kgOut.result.public_signing_key = p2kgOut.result.public_signing_key
        /\ p1kgOut.result.public_signing_key =
               PointAdd(p1kg.keypair.public_share, p2kg.keypair.public_share)
        /\ p2kgOut.result.public_signing_key =
               PointAdd(PointMul(GENERATOR, p2kgOut.result.keypair.secret_share),
                        p2kgOut.result.other_public_key)

\* an honest exchange has ended with two distinct non-trivial shares
C3_Witness ==
    /\ KeyGenHonestDone
    /\ p1kg.keypair.secret_share # 0
    /\ p2kg.keypair.secret_share # 0
    /\ p1kg.keypair.public_share # p1kgOut.result.public_signing_key

\* C4: party one's msg_handler_keygen yields a key result only after it has
\* received and verified party two's round-one message; a KeyGenFinish that
\* arrives before that yields no key result.
C4_KeyResultOnlyAfterRoundOne ==
    p1kgOut.kind = "KeyGenSuccessWithResult" => kgHist.p1verified

\* C7: once a key-generation handler of a session has returned an error, no
\* later message delivered to that session makes it emit an outgoing message or
\* a result.
C7_FailureIsTerminal ==
    [][/\ kgHist.p1erred /\ kgHist'.calls > kgHist.calls /\ kgHist'.last = "P1" =>
              p1kgOut'.kind \notin {"BroadcastMessage", "KeyGenSuccessWithResult"}
       /\ kgHist.p2erred /\ kgHist'.calls > kgHist.calls /\ kgHist'.last = "P2" =>
              p2kgOut'.kind \notin {"BroadcastMessage", "KeyGenSuccessWithResult"}]_vars

\* C8: party two accepts an opening only against the commitment it had received
\* before it sent its own public share; a commitment that arrives after party
\* two has answered does not replace the stored one.
C8_OpeningBoundToFirstCommitment ==
    p2kgOut.kind = "KeyGenSuccessWithResult" =>
        /\ kgHist.p2firstCom # None
        /\ p2kg.dl_com_zk_com_rec = kgHist.p2firstCom.v
        /\ DLComZK_verify(kgHist.p2firstCom.v, p2kg.dl_com_zk_wit_rec.v) = "Ok"

(***************************************************************************)
(* Claims about signing                                                    *)
(***************************************************************************)
\* an honest run in which the nonces satisfy rho1 # 0, rho2 # 0 and
\* r1 + rho2 # 0 (mod q)
SignHonestRun ==
    /\ sgHist.honest
    /\ p1sg.nonce_pair.secret_share # 0
    /\ p2sg.nonce_pair.secret_share # 0
    /\ ScalarAdd(p1sg.r1, p2sg.nonce_pair.secret_share) # 0

\* C1: in an honest signing run with nonzero nonces and r1 + rho2 # 0, once
\* party one has handled the message carrying s2 it holds a signature (r, s)
\* returned by online_sign that Signature::verify accepts against the joint
\* public key and m, with s < q - s.
C1_HonestRunSigns ==
    SignHonestRun /\ sgHist.p1final =>
        /\ p1sgOut.kind = "SignSuccessWithResult"
        /\ Signature_verify(p1sgOut.signature,
                            PointMul(GENERATOR, ScalarAdd(sgHist.x1, sgHist.x2)),
                            sgHist.m) = "Ok"
        /\ p1sgOut.signature.s < Q - p1sgOut.signature.s

\* C5: party one's signing session handles messages only in the order
\* WAIT_NONCE_COM -> WAIT_MTA_REPLY -> WAIT_OPEN -> DONE: a message other than
\* the expected one yields an error and nothing is sent, and
\* SignPartyOneRoundOneMsg is never sent before party two's nonce commitment
\* has been received.
C5_PartyOneInOrder ==
    /\ sgHist.p1offseq => p1sgOut.kind = "Err"
    /\ p1sgOut.kind = "BroadcastMessage" /\ p1sgOut.msg.tag = "SignPartyOneRoundOneMsg"
         => sgHist.p1gotNonceCom

\* C6: a failing check or a key result that has not been loaded makes
\* msg_handler_sign of either party return an Err value; it never panics.
C6_HandlersNeverPanic ==
    p1sgOut.kind # "Panic" /\ p2sgOut.kind # "Panic"

\* C9: party two emits a partial signature s2 only after it has accepted the
\* MtA-consistency message and verified party one's nonce proof in the same
\* session.
C9_PartialSignatureOnlyAfterAccept ==
    p2sgOut.kind = "BroadcastMessage"
    /\ p2sgOut.msg.tag \in {"SignPartyTwoRoundTwoMsg", "SignPartyTwoRoundThreeMsgOnline"}
        => sgHist.p2accepted

\* C22: within one party-two signing session at most one partial signature
\* is ever emitted: the nonce rho2 is never used to produce s2 values for two
\* different messages.
C22_OnePartialSignature ==
    /\ Cardinality(sgHist.p2sigs) <= 1
    /\ \A a, b \in sgHist.p2sigs : a.m = b.m

\* C10 as stated: after party two accepts the MtA-consistency message in an
\* honest run, k1 + k2 = x1 + x2 (mod q).
C10_AdditiveSharing ==
    sgHist.honest /\ sgHist.p2accepted =>
        ScalarAdd(p1sg.reshared_keypair.secret_share, p2sg.reshared_secret_share)
            = ScalarAdd(sgHist.x1, sgHist.x2)

\* C10 amended: after party two accepts the MtA-consistency message in an
\* honest run, k2 + k1 * (r1 + rho2) = x1 + x2 (mod q).
C10_MaskedSharing ==
    sgHist.honest /\ sgHist.p2accepted =>
        ScalarAdd(p2sg.reshared_secret_share,
                  ScalarMul(p1sg.reshared_keypair.secret_share,
                            ScalarAdd(p1sg.r1, p2sg.nonce_pair.secret_share)))
            = ScalarAdd(sgHist.x1, sgHist.x2)

\* party two has accepted in an honest run where r1 + rho2 is neither 0 nor 1
C10_Witness ==
    /\ sgHist.honest /\ sgHist.p2accepted
    /\ ScalarAdd(p1sg.r1, p2sg.nonce_pair.secret_share) \notin {0, 1}
    /\ p2sg.reshared_secret_share # 7

\* C11: degenerate values are rejected: party two hands out no s2 computed
\* with r1 + rho2 = 0 (mod q), and party one returns no signature when
\* rho1 = 0, s = 0 or r_x = 0.
C11_DegenerateRejected ==
    /\ p2sgOut.kind = "BroadcastMessage"
       /\ p2sgOut.msg.tag \in {"SignPartyTwoRoundTwoMsg", "SignPartyTwoRoundThreeMsgOnline"}
         => ScalarAdd(p2sg.r1_rec, p2sg.nonce_pair.secret_share) # 0
    /\ p1sgOut.kind = "SignSuccessWithResult"
         => /\ p1sg.nonce_pair.secret_share # 0
            /\ p1sgOut.signature.s # 0
            /\ p1sgOut.signature.r # 0

(***************************************************************************)
(* Paillier cipher  (utilities/paillier.rs)                                *)
(***************************************************************************)
\* the bits argument of keygen
PaillierBits == 6
\* largest public integer handed to eval_scal
MaxScal == 3
\* 2^(8*32): scalar_from_bigint keeps the low 32 bytes
ReprSpace == 16

\* num_bigint's / and % truncate towards zero
DivT(a, b) ==
    LET n == IF a < 0 THEN -a ELSE a
        d == IF b < 0 THEN -b ELSE b
        qt == n \div d
    IN  IF (a < 0) = (b < 0) THEN qt ELSE -qt

RemT(a, b) == a - b * DivT(a, b)

RECURSIVE Pow2(_)
Pow2(n) == IF n = 0 THEN 1 ELSE 2 * Pow2(n - 1)

Paillier_mod_floor(a, modulus) == RemT(RemT(a, modulus) + modulus, modulus)

\* the while loop of mod_pow
RECURSIVE Paillier_mod_pow_loop(_, _, _, _)
Paillier_mod_pow_loop(result, b, e, modu) ==
    IF e > 0
    THEN Paillier_mod_pow_loop(IF e % 2 = 1 THEN RemT(result * b, modu) ELSE result,
                               RemT(b * b, modu), e \div 2, modu)
    ELSE result

Paillier_mod_pow(base, exp, modu) ==
    Paillier_mod_pow_loop(1, Paillier_mod_floor(base, modu), exp, modu)

RECURSIVE Paillier_egcd(_, _)
Paillier_egcd(a, b) ==
    IF b = 0 THEN <<a, 1, 0>>
    ELSE LET r == Paillier_egcd(b, RemT(a, b))
         IN  <<r[1], r[3], r[2] - DivT(a, b) * r[3]>>

Paillier_mod_inv(a, modu) ==
    LET r == Paillier_egcd(a, modu)
    IN  IF r[1] # 1 THEN None ELSE Some(Paillier_mod_floor(r[2], modu))

RECURSIVE Paillier_gcd(_, _)
Paillier_gcd(a, b) == IF b = 0 THEN a ELSE Paillier_gcd(b, RemT(a, b))

Paillier_lcm(a, b) == DivT(a * b, Paillier_gcd(a, b))

\* one Miller-Rabin round of is_probably_prime on odd n > 3 with base a,
\* n - 1 = d * 2^s
RECURSIVE Paillier_mr_split(_, _)
Paillier_mr_split(d, s) == IF d % 2 = 0 THEN Paillier_mr_split(d \div 2, s + 1) ELSE <<d, s>>

RECURSIVE Paillier_mr_squarings(_, _, _)
Paillier_mr_squarings(x, n, left) ==
    IF left = 0 THEN FALSE
    ELSE LET x2 == Paillier_mod_pow(x, 2, n)
         IN  IF x2 = n - 1 THEN TRUE ELSE Paillier_mr_squarings(x2, n, left - 1)

Paillier_mr_round(n, a) ==
    LET ds == Paillier_mr_split(n - 1, 0)
        x == Paillier_mod_pow(a, ds[1], n)
    IN  IF x = 1 \/ x = n - 1 THEN TRUE ELSE Paillier_mr_squarings(x, n, ds[2] - 1)

\* the answers is_probably_prime(n, 16) can give, over the bases it draws
Paillier_is_probably_prime(n) ==
    IF n <= 3 THEN {n = 2 \/ n = 3}
    ELSE IF n % 2 = 0 THEN {FALSE}
    ELSE {\A a \in B : Paillier_mr_round(n, a) : B \in (SUBSET (2 .. (n - 3))) \ {{}}}

\* the values gen_prime(bits) can return
Paillier_gen_prime(bits) ==
    {p \in {IF raw % 2 = 0 THEN raw + 1 ELSE raw : raw \in 0 .. (Pow2(bits) - 1)} :
        TRUE \in Paillier_is_probably_prime(p)}

\* keygen after the loop has accepted the candidates p and qv; the expect()
\* on a missing inverse is a panic
Paillier_keygen(p, qv) ==
    LET n == p * qv
        n2 == n * n
        lam == Paillier_lcm(p - 1, qv - 1)
        g == n + 1
        u == Paillier_mod_pow(g, lam, n2)
        l_val == DivT(u - 1, n)
        mu == Paillier_mod_inv(l_val, n)
    IN  IF mu = None THEN PanicRet
        ELSE [tag |-> "Ok",
              sk |-> [lam |-> lam, mu |-> mu.v, n |-> n, n2 |-> n2],
              pk |-> [n |-> n, n2 |-> n2]]

Paillier_scalar_to_bigint(x) == x

Paillier_scalar_from_bigint(b) ==
    LET repr == b % ReprSpace
    IN  IF repr < Q THEN repr ELSE 0

\* the values sample_zn_star(n) can return
Paillier_sample_zn_star(n) == {r \in 1 .. (n - 1) : Paillier_gcd(r, n) = 1}

Paillier_encrypt(pk, m, r) ==
    LET m_big == Paillier_scalar_to_bigint(m)
        m_mod == Paillier_mod_floor(m_big, Q)
    IN  RemT(RemT(1 + m_mod * pk.n, pk.n2) * Paillier_mod_pow(r, pk.n, pk.n2), pk.n2)

Paillier_decrypt(sk, ct) ==
    LET u == Paillier_mod_pow(ct, sk.lam, sk.n2)
        l_val == DivT(u - 1, sk.n)
        m_big == RemT(l_val * sk.mu, sk.n)
        m_mod == Paillier_mod_floor(m_big, Q)
    IN  Paillier_scalar_from_bigint(m_mod)

Paillier_eval_sum(a, b, pk) == RemT(a * b, pk.n2)

Paillier_eval_scal(ct, k, pk) == Paillier_mod_pow(ct, k, pk.n2)

(***************************************************************************)
(* A Paillier run: keygen, two encryptions, the homomorphic sum and scalar *)
(* product, and the decryption of each ciphertext                          *)
(***************************************************************************)
\* randomness of the second encryption
Paillier_second_random(n) == {r \in Paillier_sample_zn_star(n) : r <= 2 \/ r = n - 1}

InitPaillier ==
    /\ IdleKeyGen
    /\ IdleMta
    /\ IdleSign
    /\ bn = None
    /\ fc = None
    /\ pl = [pc |-> "start"]

\* keygen(bits): the loop ends with the first pair of candidates whose
\* product exceeds q
PL_keygen ==
    /\ pl.pc = "start"
    /\ \E p \in Paillier_gen_prime(PaillierBits \div 2),
          qv \in Paillier_gen_prime(PaillierBits \div 2) :
         /\ p * qv > Q
         /\ LET k == Paillier_keygen(p, qv)
            IN  pl' = IF k.tag = "Panic" THEN [pc |-> "panic", p |-> p, qv |-> qv]
                      ELSE [pc |-> "keyed", p |-> p, qv |-> qv, sk |-> k.sk, pk |-> k.pk]
    /\ UNCHANGED <<kgVars, mtaVars, sgVars, bn, fc>>

\* encrypt(pk, m): first and second ciphertext
PL_encrypt ==
    \/ /\ pl.pc = "keyed"
       /\ \E m \in Scalar, r \in Paillier_sample_zn_star(pl.pk.n) :
            pl' = [pc |-> "enc1", p |-> pl.p, qv |-> pl.qv, sk |-> pl.sk, pk |-> pl.pk,
                   m1 |-> m, ct1 |-> Paillier_encrypt(pl.pk, m, r)]
       /\ UNCHANGED <<kgVars, mtaVars, sgVars, bn, fc>>
    \/ /\ pl.pc = "dec1"
       /\ \E m \in Scalar, r \in Paillier_second_random(pl.pk.n) :
            pl' = [p |-> pl.p, qv |-> pl.qv, sk |-> pl.sk, pk |-> pl.pk,
                   m1 |-> pl.m1, ct1 |-> pl.ct1, pc |-> "enc2",
                   m2 |-> m, ct2 |-> Paillier_encrypt(pl.pk, m, r)]
       /\ UNCHANGED <<kgVars, mtaVars, sgVars, bn, fc>>

\* decrypt(sk, ct) of the ciphertext produced last
PL_decrypt ==
    \/ /\ pl.pc = "enc1"
       /\ pl' = [pc |-> "dec1", p |-> pl.p, qv |-> pl.qv, sk |-> pl.sk, pk |-> pl.pk,
                 m1 |-> pl.m1, ct1 |-> pl.ct1, d1 |-> Paillier_decrypt(pl.sk, pl.ct1)]
       /\ UNCHANGED <<kgVars, mtaVars, sgVars, bn, fc>>
    \/ /\ pl.pc = "sum"
       /\ pl' = [pl EXCEPT !.pc = "decsum", !.sum_dec = Some(Paillier_decrypt(pl.sk, pl.c_sum))]
       /\ UNCHANGED <<kgVars, mtaVars, sgVars, bn, fc>>
    \/ /\ pl.pc = "scal"
       /\ pl' = [pl EXCEPT !.pc = "decscal",
                           !.scal_dec = Some(Paillier_decrypt(pl.sk, pl.c_scal))]
       /\ UNCHANGED <<kgVars, mtaVars, sgVars, bn, fc>>

\* eval_sum(ct1, ct2, pk)
PL_eval_sum ==
    /\ pl.pc = "enc2"
    /\ pl' = [p |-> pl.p, qv |-> pl.qv, sk |-> pl.sk, pk |-> pl.pk,
              m1 |-> pl.m1, ct1 |-> pl.ct1, m2 |-> pl.m2, ct2 |-> pl.ct2,
              pc |-> "sum", c_sum |-> Paillier_eval_sum(pl.ct1, pl.ct2, pl.pk),
              sum_dec |-> None, k |-> 0, c_scal |-> 0, scal_dec |-> None]
    /\ UNCHANGED <<kgVars, mtaVars, sgVars, bn, fc>>

\* eval_scal(ct1, k, pk)
PL_eval_scal ==
    /\ pl.pc = "decsum"
    /\ \E k \in 0 .. MaxScal :
         pl' = [pl EXCEPT !.pc = "scal", !.k = k,
                          !.c_scal = Paillier_eval_scal(pl.ct1, k, pl.pk)]
    /\ UNCHANGED <<kgVars, mtaVars, sgVars, bn, fc>>

NextPaillier ==
    \/ PL_keygen
    \/ PL_encrypt
    \/ PL_decrypt
    \/ PL_eval_sum
    \/ PL_eval_scal

SpecPaillier == InitPaillier /\ [][NextPaillier]_vars

\* C12: Paillier round trip: for every key pair keygen returns and every
\* scalar m, decrypt(sk, encrypt(pk, m)) = m, whatever r encrypt draws.
C12_PaillierRoundTrip ==
    pl.pc = "dec1" => pl.d1 = pl.m1

\* C13: Paillier addition: for every key pair keygen returns and all scalars
\* m1, m2, decrypt(sk, eval_sum(encrypt(pk, m1), encrypt(pk, m2), pk)) =
\* (m1 + m2) mod q.
C13_PaillierSum ==
    pl.pc = "decsum" => pl.sum_dec = Some((pl.m1 + pl.m2) % Q)

\* C14: Paillier scalar evaluation: for every key pair keygen returns, every
\* scalar m and every public integer k >= 0,
\* decrypt(sk, eval_scal(encrypt(pk, m), k, pk)) = (k * m) mod q.
C14_PaillierScal ==
    pl.pc = "decscal" => pl.scal_dec = Some((pl.k * pl.m1) % Q)

(***************************************************************************)
(* classgroup: dashu BigInt  (classgroup/src/dashu/bigint.rs)               *)
(***************************************************************************)
\* largest magnitude of an operand handed to the integer library
MaxInt == 12
\* largest exponent handed to powm
MaxExp == 4
\* 2^128: below it gcdext runs its own Euclidean loop
GcdThreshold == 8

IntArg == (-MaxInt)..MaxInt

IBig_abs(a) == IF a < 0 THEN -a ELSE a

\* dashu's rem_euclid: the remainder in 0 .. |m| - 1
IBig_rem_euclid(a, m) ==
    LET r == RemT(a, m)
    IN  IF r < 0 THEN r + IBig_abs(m) ELSE r

\* !x on a two's complement integer
IBig_not(a) == -a - 1

RECURSIVE IBig_bit_len(_)
IBig_bit_len(n) == IF n = 0 THEN 0 ELSE 1 + IBig_bit_len(n \div 2)

BigInt_bit_length(a) == IBig_bit_len(IBig_abs(a))

BigInt_div_floor(a, b) ==
    IF b = 0 THEN PanicRet
    ELSE LET qt == DivT(a, b)
             r == RemT(a, b)
         IN  IF r # 0 /\ (a < 0) # (b < 0) THEN qt - 1 ELSE qt

BigInt_mod_floor_truncating(a, b) ==
    IF b = 0 THEN PanicRet ELSE RemT(a, b)

BigInt_mod_floor(a, b) ==
    IF b = 0 THEN PanicRet
    ELSE LET r == RemT(a, b)
         IN  IF r # 0 /\ (a < 0) # (b < 0) THEN r + b ELSE r

small_primes == <<3, 5, 7, 11, 13, 17, 19, 23, 29, 31, 37, 41, 43, 47>>

RECURSIVE BigInt_trial_division(_, _)
BigInt_trial_division(n, i) ==
    IF i > Len(small_primes) THEN "ProbablyPrime"
    ELSE IF n = small_primes[i] THEN "Prime"
    ELSE IF RemT(n, small_primes[i]) = 0 THEN "NotPrime"
    ELSE BigInt_trial_division(n, i + 1)

BigInt_probab_prime(n) ==
    IF n <= 1 THEN "NotPrime"
    ELSE IF n = 2 \/ n = 3 THEN "Prime"
    ELSE IF n % 2 = 0 THEN "NotPrime"
    ELSE BigInt_trial_division(n, 1)

RECURSIVE BigInt_nextprime_loop(_)
BigInt_nextprime_loop(candidate) ==
    IF BigInt_probab_prime(candidate) # "NotPrime" THEN candidate
    ELSE BigInt_nextprime_loop(candidate + 2)

BigInt_nextprime(n) ==
    LET c == n + 1
    IN  BigInt_nextprime_loop(IF c % 2 = 0 THEN c + 1 ELSE c)

\* the while loop of gcdext on (r0, r1, s0, s1, t0, t1)
RECURSIVE BigInt_gcdext_loop(_, _, _, _, _, _)
BigInt_gcdext_loop(r0, r1, s0, s1, t0, t1) ==
    IF r1 = 0 THEN <<r0, s0, t0>>
    ELSE LET qt == DivT(r0, r1)
         IN  BigInt_gcdext_loop(r1, r0 - qt * r1, s1, s0 - qt * s1, t1, t0 - qt * t1)

\* dashu's IBig::gcd_ext, called for two operands of at least 2^128: any
\* Bezout pair of the size the library returns
IBig_gcd_ext(a, b) ==
    LET g == BigInt_gcdext_loop(IBig_abs(a), IBig_abs(b), 1, 0, 0, 1)[1]
        pairs == ((-IBig_abs(b))..IBig_abs(b)) \X ((-IBig_abs(a))..IBig_abs(a))
    IN  {<<g, st[1], st[2]>> : st \in {p \in pairs : p[1] * a + p[2] * b = g}}

\* gcdext without the final sign adjustment
BigInt_gcdext_unsigned(a, b) ==
    IF a = 0 THEN {<<IBig_abs(b), 0, IF b < 0 THEN -1 ELSE 1>>}
    ELSE IF b = 0 THEN {<<IBig_abs(a), IF a < 0 THEN -1 ELSE 1, 0>>}
    ELSE IF IBig_abs(a) >= GcdThreshold /\ IBig_abs(b) >= GcdThreshold
         THEN IBig_gcd_ext(a, b)
    ELSE {BigInt_gcdext_loop(IBig_abs(a), IBig_abs(b), 1, 0, 0, 1)}

\* the set of triples gcdext can return
BigInt_gcdext(a, b) ==
    IF a = 0 THEN {<<IBig_abs(b), 0, IF b < 0 THEN -1 ELSE 1>>}
    ELSE IF b = 0 THEN {<<IBig_abs(a), IF a < 0 THEN -1 ELSE 1, 0>>}
    ELSE IF IBig_abs(a) >= GcdThreshold /\ IBig_abs(b) >= GcdThreshold
         THEN IBig_gcd_ext(a, b)
    ELSE LET e == BigInt_gcdext_loop(IBig_abs(a), IBig_abs(b), 1, 0, 0, 1)
         IN  {<<e[1], IF a < 0 THEN -e[2] ELSE e[2], IF b < 0 THEN -e[3] ELSE e[3]>>}

\* the while loop of powm on (result, base, exponent)
RECURSIVE BigInt_powm_loop(_, _, _, _)
BigInt_powm_loop(result, base, exponent, modulus) ==
    IF exponent <= 0 THEN result
    ELSE BigInt_powm_loop(IF exponent % 2 = 1 THEN IBig_rem_euclid(result * base, modulus) ELSE result,
                          IBig_rem_euclid(base * base, modulus), exponent \div 2, modulus)

BigInt_powm(a, exp, modulus) ==
    IF modulus = 0 THEN PanicRet
    ELSE BigInt_powm_loop(1, IBig_rem_euclid(a, modulus), exp, modulus)

(***************************************************************************)
(* classgroup: Mpz  (classgroup/src/mpz.rs)                                 *)
(***************************************************************************)
RECURSIVE Mpz_gcdext_loop(_, _, _, _, _, _)
Mpz_gcdext_loop(old_r, r, old_s, s, old_t, t) ==
    IF r = 0 THEN <<old_r, old_s, old_t>>
    ELSE LET quotient == DivT(old_r, r)
         IN  Mpz_gcdext_loop(r, old_r - quotient * r, s, old_s - quotient * s,
                             t, old_t - quotient * t)

Mpz_gcdext(a, b) ==
    IF b = 0 THEN <<IBig_abs(a), IF a >= 0 THEN 1 ELSE -1, 0>>
    ELSE Mpz_gcdext_loop(a, b, 1, 0, 0, 1)

Mpz_modulus(a, modulo) ==
    IF modulo = 0 THEN PanicRet ELSE IBig_rem_euclid(a, modulo)

Mpz_invert(a, modulus) ==
    IF modulus = 0 THEN None
    ELSE LET e == Mpz_gcdext(a, modulus)
         IN  IF e[1] # 1 THEN None ELSE Some(Mpz_modulus(e[2], modulus))

\* dashu's div_euclid: the quotient whose remainder is rem_euclid
IBig_div_euclid(a, b) ==
    LET qt == DivT(a, b)
    IN  IF RemT(a, b) < 0 THEN (IF b > 0 THEN qt - 1 ELSE qt + 1) ELSE qt

Mpz_div_floor(a, other) ==
    IF other = 0 THEN PanicRet
    ELSE IF other = 1 THEN a
    ELSE IBig_div_euclid(a, other)

Mpz_mod_floor(a, other) ==
    IF other = 0 THEN PanicRet ELSE IBig_rem_euclid(a, other)

\* Mpz::crem_u16 on a non-negative self, as its caller passes it
Mpz_crem_u16(self, modulus) ==
    IF modulus = 0 THEN PanicRet ELSE RemT(self, modulus)

mpz_crem_u16(n, d) == Mpz_crem_u16(IBig_abs(n), d)

\* BigInt::gcd: zero for (0, 0), else the library's gcd of the magnitudes
BigInt_gcd(a, b) ==
    IF a = 0 /\ b = 0 THEN 0
    ELSE BigInt_gcdext_loop(IBig_abs(a), IBig_abs(b), 1, 0, 0, 1)[1]

\* BigInt::invert: one outcome for each triple gcdext can return
BigInt_invert(a, modulo) ==
    {IF e[1] # 1 THEN None
     ELSE IF modulo = 0 THEN PanicRet
     ELSE Some(IBig_rem_euclid(e[2], modulo)) : e \in BigInt_gcdext(a, modulo)}

\* bigint_gcdext of the ffi: the values left in (gcd, s, t), or the panic of
\* a division by zero or of the expect
bigint_gcdext(a, b) ==
    LET g == BigInt_gcd(a, b)
    IN  IF g = 0 THEN {PanicRet}
        ELSE {IF inv.tag = "Some" THEN [tag |-> "Ok", gcd |-> g, s |-> inv.v, t |-> 0]
              ELSE PanicRet : inv \in BigInt_invert(DivT(a, g), DivT(b, g))}

(***************************************************************************)
(* classgroup: byte export and import  (dashu_classgroup/ffi.rs)            *)
(***************************************************************************)
\* longest buffer handed to export_obj
MaxBuf == 3
\* values of one byte
ByteSpace == 256

\* Vec<u8>::from(&BigInt): big-endian bytes of |a|, [0] for zero
RECURSIVE BigInt_to_bytes_loop(_)
BigInt_to_bytes_loop(n) ==
    IF n = 0 THEN <<>> ELSE Append(BigInt_to_bytes_loop(n \div ByteSpace), n % ByteSpace)

BigInt_to_bytes(a) ==
    IF a = 0 THEN <<0>> ELSE BigInt_to_bytes_loop(IBig_abs(a))

\* BigInt::from(&[u8]): the unsigned big-endian value, zero for no bytes
RECURSIVE BigInt_from_bytes(_)
BigInt_from_bytes(buf) ==
    IF Len(buf) = 0 THEN 0
    ELSE BigInt_from_bytes(SubSeq(buf, 1, Len(buf) - 1)) * ByteSpace + buf[Len(buf)]

RECURSIVE skip_while_ff(_)
skip_while_ff(buf) ==
    IF Len(buf) > 0 /\ buf[1] = ByteSpace - 1 THEN skip_while_ff(Tail(buf)) ELSE buf

xor_ff(buf) == [i \in 1..Len(buf) |-> (ByteSpace - 1) - buf[i]]

import_obj(buf) ==
    IF Len(buf) = 0 THEN 0
    ELSE IF buf[1] < ByteSpace \div 2 THEN BigInt_from_bytes(buf)
    ELSE LET new_buf == skip_while_ff(buf)
         IN  IF Len(new_buf) = 0 THEN -1
             ELSE IBig_not(BigInt_from_bytes(xor_ff(new_buf)))

\* usize::MAX is far above every size of the model, so the overflow check of
\* export_obj never fires
export_obj(obj, v) ==
    LET size == BigInt_bit_length(obj)
        byte_len_needed == (size + 8) \div 8
    IN  IF size = 0
        THEN IF Len(v) = 0 THEN Ok(v) ELSE Ok([v EXCEPT ![1] = 0])
        ELSE IF Len(v) < byte_len_needed THEN Err(byte_len_needed)
        ELSE IF obj < 0
        THEN LET bytes == BigInt_to_bytes(IBig_not(obj))
                 offset == IF Len(v) >= Len(bytes) THEN Len(v) - Len(bytes) ELSE 0
             IN  Ok([i \in 1..Len(v) |->
                       IF i <= offset THEN ByteSpace - 1
                       ELSE (ByteSpace - 1) - bytes[i - offset]])
        ELSE LET bytes == BigInt_to_bytes(obj)
                 offset == IF Len(v) >= Len(bytes) THEN Len(v) - Len(bytes) ELSE 0
             IN  Ok([i \in 1..Len(v) |-> IF i <= offset THEN 0 ELSE bytes[i - offset]])

(***************************************************************************)
(* Calls of the integer library: one call on arguments of either sign, and *)
(* the import of a buffer that an export has filled                        *)
(***************************************************************************)
\* integers around the byte boundaries, next to the small ones
ExportArg == IntArg \cup {-257, -256, -129, -128, 127, 128, 255, 256}
\* what a buffer can hold before the call
StaleByte == {0, 7, 255}
RECURSIVE BufOfLen(_)
BufOfLen(n) ==
    IF n = 0 THEN {<<>>} ELSE {Append(b, x) : b \in BufOfLen(n - 1), x \in StaleByte}
\* arguments of nextprime: the small integers and the gap below 53 * 53
NextPrimeArg == IntArg \cup {2803, 2808}

InitBigInt ==
    /\ IdleKeyGen
    /\ IdleMta
    /\ IdleSign
    /\ pl = None
    /\ fc = None
    /\ bn = [op |-> "idle"]

\* bigint_fdiv_qr: div_floor and mod_floor of the same operands
BN_fdiv_qr ==
    /\ bn.op = "idle"
    /\ \E a \in IntArg, b \in IntArg :
         bn' = [op |-> "fdiv_qr", a |-> a, b |-> b,
                q |-> BigInt_div_floor(a, b), r |-> BigInt_mod_floor(a, b)]
    /\ UNCHANGED <<kgVars, mtaVars, sgVars, pl, fc>>

BN_gcdext ==
    /\ bn.op = "idle"
    /\ \E a \in IntArg, b \in IntArg :
         \E e \in BigInt_gcdext(a, b) :
           bn' = [op |-> "gcdext", a |-> a, b |-> b, g |-> e[1], s |-> e[2], t |-> e[3]]
    /\ UNCHANGED <<kgVars, mtaVars, sgVars, pl, fc>>

BN_invert ==
    /\ bn.op = "idle"
    /\ \E a \in IntArg, m \in IntArg :
         bn' = [op |-> "invert", a |-> a, m |-> m, res |-> Mpz_invert(a, m)]
    /\ UNCHANGED <<kgVars, mtaVars, sgVars, pl, fc>>

BN_powm ==
    /\ bn.op = "idle"
    /\ \E a \in IntArg, e \in 0..MaxExp, m \in IntArg :
         bn' = [op |-> "powm", a |-> a, e |-> e, m |-> m, res |-> BigInt_powm(a, e, m)]
    /\ UNCHANGED <<kgVars, mtaVars, sgVars, pl, fc>>

BN_export_obj ==
    /\ bn.op = "idle"
    /\ \E x \in ExportArg, n \in 0..MaxBuf :
         \E v \in BufOfLen(n) :
           bn' = [op |-> "export", x |-> x, v |-> v, res |-> export_obj(x, v)]
    /\ UNCHANGED <<kgVars, mtaVars, sgVars, pl, fc>>

\* import_obj reads back the buffer a successful export_obj has filled
BN_import_obj ==
    /\ bn.op = "export"
    /\ bn.res.tag = "Ok"
    /\ bn' = [op |-> "import", x |-> bn.x, v |-> bn.v, buf |-> bn.res.v,
              res |-> import_obj(bn.res.v)]
    /\ UNCHANGED <<kgVars, mtaVars, sgVars, pl, fc>>

BN_nextprime ==
    /\ bn.op = "idle"
    /\ \E n \in NextPrimeArg :
         bn' = [op |-> "nextprime", n |-> n, res |-> BigInt_nextprime(n)]
    /\ UNCHANGED <<kgVars, mtaVars, sgVars, pl, fc>>

\* arguments of probab_prime: the small integers, 53 * 53, 29 * 97 and a prime
ProbabPrimeArg == IntArg \cup {2809, 2813, 2819}

BN_probab_prime ==
    /\ bn.op = "idle"
    /\ \E n \in ProbabPrimeArg :
         bn' = [op |-> "probab_prime", n |-> n, res |-> BigInt_probab_prime(n)]
    /\ UNCHANGED <<kgVars, mtaVars, sgVars, pl, fc>>

\* mpz_fdiv_qr: Mpz div_floor and mod_floor of the same operands
BN_mpz_fdiv_qr ==
    /\ bn.op = "idle"
    /\ \E a \in IntArg, b \in IntArg :
         bn' = [op |-> "mpz_fdiv_qr", a |-> a, b |-> b,
                q |-> Mpz_div_floor(a, b), r |-> Mpz_mod_floor(a, b)]
    /\ UNCHANGED <<kgVars, mtaVars, sgVars, pl, fc>>

BN_mpz_crem_u16 ==
    /\ bn.op = "idle"
    /\ \E n \in IntArg \cup {-100, 100}, d \in 0..MaxInt :
         bn' = [op |-> "mpz_crem_u16", n |-> n, d |-> d, res |-> mpz_crem_u16(n, d)]
    /\ UNCHANGED <<kgVars, mtaVars, sgVars, pl, fc>>

BN_bigint_gcdext ==
    /\ bn.op = "idle"
    /\ \E a \in IntArg, b \in IntArg :
         \E res \in bigint_gcdext(a, b) :
           bn' = [op |-> "bigint_gcdext", a |-> a, b |-> b, res |-> res]
    /\ UNCHANGED <<kgVars, mtaVars, sgVars, pl, fc>>

NextBigInt ==
    \/ BN_mpz_fdiv_qr
    \/ BN_mpz_crem_u16
    \/ BN_bigint_gcdext
    \/ BN_probab_prime
    \/ BN_fdiv_qr
    \/ BN_gcdext
    \/ BN_invert
    \/ BN_powm
    \/ BN_export_obj
    \/ BN_import_obj
    \/ BN_nextprime

SpecBigInt == InitBigInt /\ [][NextBigInt]_vars

\* the greatest common divisor of |a| and |b|, zero for (0, 0)
GcdOf(a, b) ==
    IF a = 0 /\ b = 0 THEN 0
    ELSE CHOOSE d \in 1..(IBig_abs(a) + IBig_abs(b)) :
           /\ a % d = 0 /\ b % d = 0
           /\ \A c \in 1..(IBig_abs(a) + IBig_abs(b)) : (a % c = 0 /\ b % c = 0) => c <= d

RECURSIVE PowOf(_, _)
PowOf(a, e) == IF e = 0 THEN 1 ELSE a * PowOf(a, e - 1)

IsPrime(n) == n >= 2 /\ \A d \in 2..(n - 1) : n % d # 0

\* C15: dashu BigInt floor division: for all a and all b # 0 of either sign,
\* a = div_floor(a, b) * b + mod_floor(a, b), and mod_floor(a, b) is zero or
\* has the sign of b, with |mod_floor(a, b)| < |b|.
C15_FloorDivision ==
    (bn.op = "fdiv_qr" /\ bn.b # 0) =>
        /\ bn.a = bn.q * bn.b + bn.r
        /\ bn.r = 0 \/ (bn.r < 0) = (bn.b < 0)
        /\ IBig_abs(bn.r) < IBig_abs(bn.b)

C15_Witness ==
    /\ bn.op = "fdiv_qr"
    /\ bn.a = -8 /\ bn.b = 3
    /\ bn.q = -3 /\ bn.r = 1

\* C16: BigInt::gcdext(a, b) returns (g, s, t) with g = gcd(|a|, |b|) >= 0
\* and g = s * a + t * b, for operands of either sign, for zero operands and
\* for operands below the threshold, which take the Euclidean loop.
C16_Bezout ==
    bn.op = "gcdext" =>
        /\ bn.g = GcdOf(bn.a, bn.b)
        /\ bn.g >= 0
        /\ bn.g = bn.s * bn.a + bn.t * bn.b

C16_Witness ==
    /\ bn.op = "gcdext"
    /\ bn.a = -6 /\ bn.b = 4
    /\ bn.g = 2
    /\ bn.s * bn.a + bn.t * bn.b = 2

\* C17: Mpz::invert with modulus m > 0 returns Some(x) with 0 <= x < m and
\* a * x = 1 (mod m) whenever gcd(a, m) = 1, for negative a as well, and
\* returns None exactly when gcd(a, m) # 1.
C17_Invert ==
    (bn.op = "invert" /\ bn.m > 0) =>
        IF GcdOf(bn.a, bn.m) = 1
        THEN /\ bn.res.tag = "Some"
             /\ bn.res.v \in 0..(bn.m - 1)
             /\ (bn.a * bn.res.v) % bn.m = 1 % bn.m
        ELSE bn.res = None

\* C18: BigInt::powm(a, e, m) for every a, every e >= 0 and every m > 0
\* returns the residue r with 0 <= r < m and r = a^e (mod m).
C18_Powm ==
    (bn.op = "powm" /\ bn.m > 0) =>
        /\ bn.res \in 0..(bn.m - 1)
        /\ bn.res = PowOf(bn.a, bn.e) % bn.m

\* the two's complement of x on n bytes
SignExtended(x, n) ==
    LET u == x % (PowOf(ByteSpace, n))
    IN  [i \in 1..n |-> (u \div PowOf(ByteSpace, n - i)) % ByteSpace]

\* C19: signed export/import round trip: whatever the buffer v held before
\* the call, if export_obj(x, v) returns Ok then import_obj(v) = x, and v is
\* x right-aligned with every leading byte 0x00 for x >= 0 and 0xFF for x < 0.
C19_ExportImport ==
    /\ (bn.op = "export" /\ bn.res.tag = "Ok") => bn.res.v = SignExtended(bn.x, Len(bn.v))
    /\ bn.op = "import" => bn.res = bn.x

\* C20: BigInt::nextprime(n) is the smallest prime strictly greater than n,
\* for every integer n.
C20_NextPrime ==
    bn.op = "nextprime" =>
        /\ bn.res > bn.n
        /\ IsPrime(bn.res)
        /\ \A k \in (bn.n + 1)..(bn.res - 1) : ~IsPrime(k)

\* C21: BigInt::probab_prime returns NotPrime for every composite number and
\* for every n <= 1, and Prime or ProbablyPrime for every prime: it never
\* reports a composite as Prime or ProbablyPrime.
C21_ProbabPrime ==
    bn.op = "probab_prime" =>
        IF IsPrime(bn.n) THEN bn.res \in {"Prime", "ProbablyPrime"}
        ELSE bn.res = "NotPrime"

(***************************************************************************)
(* Calls of the verifying functions of multi_party_ecdsa, one call on      *)
(* arguments drawn from the scalars and points of the group                *)
(***************************************************************************)
InitCalls ==
    /\ IdleKeyGen
    /\ IdleMta
    /\ IdleSign
    /\ pl = None
    /\ bn = None
    /\ fc = [op |-> "idle"]

\* a party_two::Sign after load_keygen_result, with nonce rho2
CallSignP2(x1, x2, rho2) ==
    P2_load_keygen_result(P2_Sign_new(1, FALSE, rho2, 1, 0, 0, 1, 2, 9),
                          P2_KeyGenResult(x1, x2))

\* verify_generate_mta_consistency on any consistency message
FC_verify_generate_mta_consistency ==
    /\ fc.op = "idle"
    /\ \E x1 \in {3}, x2 \in {5}, rho2 \in {1, 6}, t_b \in ScalarSample, cc \in Scalar,
          r1 \in ScalarSample, k1 \in ScalarSample :
         LET self == CallSignP2(x1, x2, rho2)
             cons == [reshared_public_share |-> PointMul(GENERATOR, k1), r1 |-> r1, cc |-> cc]
         IN  fc' = [op |-> "verify_generate_mta_consistency", self |-> self, t_b |-> t_b,
                    cons |-> cons, res |-> P2_verify_generate_mta_consistency(self, t_b, cons)]
    /\ UNCHANGED <<kgVars, mtaVars, sgVars, pl, bn>>

\* party one's msg_handler_keygen on a round-one message that carries any
\* share with any proof
FC_P1_msg_handler_keygen ==
    /\ fc.op = "idle"
    /\ \E x1 \in {3}, rs \in {2, 6}, P \in Point, T \in Point, z \in Scalar :
         LET self == P1_KeyGen_new(x1, 1, 0, 1, rs)
             msg == KeyGenPartyTwoRoundOneMsg(
                        [public_share |-> P,
                         dl_proof |-> [pk_t_rand_commitment |-> T, challenge_response |-> z]])
         IN  fc' = [op |-> "msg_handler_keygen", self |-> self, msg |-> msg,
                    res |-> P1_msg_handler_keygen(self, msg)]
    /\ UNCHANGED <<kgVars, mtaVars, sgVars, pl, bn>>

\* DLComZK::verify on any witness, against commitments that match it or not
FC_DLComZK_verify ==
    /\ fc.op = "idle"
    /\ \E P \in Point, T \in Point, z \in Scalar, b1 \in Blind, b2 \in Blind,
          off1 \in {0, 1}, off2 \in {0, 1} :
         LET witness == [pk_commitment_blind_factor |-> b1,
                         zk_pok_blind_factor |-> b2,
                         public_share |-> P,
                         d_log_proof |-> [pk_t_rand_commitment |-> T,
                                          challenge_response |-> z]]
             commitment ==
                 [pk_commitment |->
                      create_hash_commitment(bytes_compressed_to_big_int(P), b1) + off1,
                  zk_pok_commitment |->
                      create_hash_commitment(bytes_compressed_to_big_int(T), b2) + off2]
         IN  fc' = [op |-> "DLComZK_verify", commitment |-> commitment, witness |-> witness,
                    res |-> DLComZK_verify(commitment, witness)]
    /\ UNCHANGED <<kgVars, mtaVars, sgVars, pl, bn>>

\* DLogProof::prove(x) with any draw of its nonce, verified against G*x
FC_DLogProof_prove ==
    /\ fc.op = "idle"
    /\ \E x \in Scalar, random \in Scalar :
         LET proof == DLogProof_prove(x, random)
         IN  fc' = [op |-> "DLogProof_prove", x |-> x, random |-> random, proof |-> proof,
                    res |-> DLogProof_verify(proof, PointMul(GENERATOR, x))]
    /\ UNCHANGED <<kgVars, mtaVars, sgVars, pl, bn>>

\* dl_com_zk_test: DLComZK::new(x, G*x), then verify_commitments_and_dlog_proof
FC_DLComZK_new ==
    /\ fc.op = "idle"
    /\ \E x \in Scalar, random \in Scalar, b1 \in Blind, b2 \in Blind :
         LET dl_com_zk == DLComZK_new(x, PointMul(GENERATOR, x), random, b1, b2)
         IN  fc' = [op |-> "DLComZK_new", x |-> x, dl_com_zk |-> dl_com_zk,
                    res |-> DLComZK_verify_commitments_and_dlog_proof(dl_com_zk)]
    /\ UNCHANGED <<kgVars, mtaVars, sgVars, pl, bn>>

\* CLProof::verify on the proof of an encryption, with u1 and u2 replaced by
\* any integers around their ranges
FC_CLProof_verify ==
    /\ fc.op = "idle"
    /\ \E sk \in ClSecrets, m \in ScalarSample, r \in ClRandom, r1 \in ClProofR1,
          r2 \in {0, Q - 1},
          u1 \in (-1)..(Stilde * Slack * ChallengeSpace * (Slack + 1) + 1),
          u2 \in (-1)..(Q + 1) :
         LET pk == CLGroup_keygen(sk).cl_pub_key
             enc == CLGroup_encrypt(pk, m, r)
             statement == [cipher |-> enc.cipher, cl_pub_key |-> pk]
             honest == CLProof_prove([x |-> m, r |-> enc.r], statement, r1, r2)
             proof == [honest EXCEPT !.u1 = u1, !.u2 = u2]
         IN  fc' = [op |-> "CLProof_verify", proof |-> proof, statement |-> statement,
                    honest |-> honest, res |-> CLProof_verify(proof, statement)]
    /\ UNCHANGED <<kgVars, mtaVars, sgVars, pl, bn>>

NextCalls ==
    \/ FC_CLProof_verify
    \/ FC_verify_generate_mta_consistency
    \/ FC_P1_msg_handler_keygen
    \/ FC_DLComZK_verify
    \/ FC_DLogProof_prove
    \/ FC_DLComZK_new

SpecCalls == InitCalls /\ [][NextCalls]_vars

\* C23: party two's verify_generate_mta_consistency returns Ok exactly when
\* G*(t_a + cc) = reshared_public_share*(r1 + rho2) - other_public_key; when
\* it returns Err, reshared_secret_share and r1_rec keep the values they had
\* before the call.
C23_MtaConsistency ==
    fc.op = "verify_generate_mta_consistency" =>
        /\ fc.res.ret.tag = "Ok" <=>
               PointMul(GENERATOR, ScalarAdd(fc.t_b, fc.cons.cc))
                 = PointSub(PointMul(fc.cons.reshared_public_share,
                                     ScalarAdd(fc.cons.r1, fc.self.nonce_pair.secret_share)),
                            fc.self.keygen_result.v.other_public_key)
        /\ fc.res.ret.tag = "Err" =>
               /\ fc.res.self.reshared_secret_share = fc.self.reshared_secret_share
               /\ fc.res.self.r1_rec = fc.self.r1_rec

C23_Witness ==
    /\ fc.op = "verify_generate_mta_consistency"
    /\ fc.res.ret.tag = "Err"
    /\ fc.cons.r1 # fc.self.r1_rec
    /\ fc.res.self.r1_rec = fc.self.r1_rec

\* C24: party one reveals its commitment opening in key generation only if
\* the DL proof of party two's round-one message verifies for the public
\* share received with it; otherwise the call returns VrfyDlogFailed, returns
\* no opening and leaves public_share_rec unchanged.
C24_OpeningOnlyAfterProof ==
    fc.op = "msg_handler_keygen" =>
        IF DLogProof_verify(fc.msg.body.dl_proof, fc.msg.body.public_share) = "Ok"
        THEN fc.res.ret = BroadcastMessage(KeyGenPartyOneRoundTwoMsg(fc.self.dl_com_zk_wit))
        ELSE /\ fc.res.ret = ErrReturn("VrfyDlogFailed")
             /\ fc.res.self.public_share_rec = fc.self.public_share_rec

C24_Witness ==
    /\ fc.op = "msg_handler_keygen"
    /\ DLogProof_verify(fc.msg.body.dl_proof, fc.msg.body.public_share) # "Ok"
    /\ fc.msg.body.public_share # fc.self.public_share_rec
    /\ fc.res.ret = ErrReturn("VrfyDlogFailed")
    /\ fc.res.self = fc.self

\* C25: DLComZK::verify returns Ok exactly when both hash commitments are
\* reproduced from the witness and the Schnorr proof verifies for the
\* witness's public share; on failure the error is OpenDLCommFailed if the
\* public-share commitment does not match (whatever else is wrong), otherwise
\* OpenCommZKFailed if the proof-nonce commitment does not match, otherwise
\* VrfyDlogFailed.
C25_VerifyPrecedence ==
    fc.op = "DLComZK_verify" =>
        LET w == fc.witness
            pkOpens == fc.commitment.pk_commitment
                         = create_hash_commitment(bytes_compressed_to_big_int(w.public_share),
                                                  w.pk_commitment_blind_factor)
            zkOpens == fc.commitment.zk_pok_commitment
                         = create_hash_commitment(
                               bytes_compressed_to_big_int(w.d_log_proof.pk_t_rand_commitment),
                               w.zk_pok_blind_factor)
            proves == DLogProof_verify(w.d_log_proof, w.public_share) = "Ok"
        IN  /\ fc.res = "Ok" <=> (pkOpens /\ zkOpens /\ proves)
            /\ ~pkOpens => fc.res = "OpenDLCommFailed"
            /\ pkOpens /\ ~zkOpens => fc.res = "OpenCommZKFailed"
            /\ pkOpens /\ zkOpens /\ ~proves => fc.res = "VrfyDlogFailed"

\* a witness whose first commitment does not open and whose proof is wrong
C25_Witness ==
    /\ fc.op = "DLComZK_verify"
    /\ fc.res = "OpenDLCommFailed"
    /\ DLogProof_verify(fc.witness.d_log_proof, fc.witness.public_share) # "Ok"
    /\ fc.commitment.zk_pok_commitment
         # create_hash_commitment(
               bytes_compressed_to_big_int(fc.witness.d_log_proof.pk_t_rand_commitment),
               fc.witness.zk_pok_blind_factor)

\* C26: honest discrete-log proofs always verify: for every secret scalar x
\* and every draw of the prover's nonce, DLogProof::prove(x) is accepted by
\* verify against G*x, and DLComZK::new(x, G*x) passes
\* verify_commitments_and_dlog_proof.
C26_HonestProofsVerify ==
    /\ fc.op = "DLogProof_prove" => fc.res = "Ok"
    /\ fc.op = "DLComZK_new" => fc.res = "Ok"

C26_Witness ==
    /\ fc.op = "DLogProof_prove"
    /\ fc.x = 7 /\ fc.random = 0
    /\ compute_challenge(PointMul(GENERATOR, fc.x), fc.proof.pk_t_rand_commitment) # 0
    /\ fc.res = "Ok"

\* C27: CLProof::verify returns VrfyCLProofFailed for every proof whose u1
\* lies outside [0, stilde * 2^40 * 2^128 * (2^40 + 1)] or whose u2 lies
\* outside [0, q), u2 = q included, whether or not the two group equations
\* hold.
C27_ProofBounds ==
    (/\ fc.op = "CLProof_verify"
     /\ \/ fc.proof.u1 \notin 0..(Stilde * Slack * ChallengeSpace * (Slack + 1))
        \/ fc.proof.u2 \notin 0..(Q - 1))
        => fc.res = "VrfyCLProofFailed"

\* C28: Mpz division behind mpz_fdiv_q and mpz_fdiv_qr is floor division for
\* every a and every b # 0, negative divisors included: a = q * b + r with r
\* zero or of the sign of the divisor and |r| < |b|
\* (8 and -3 give -3 and -1; -8 and -3 give 2 and -2).
C28_MpzFloorDivision ==
    (bn.op = "mpz_fdiv_qr" /\ bn.b # 0) =>
        /\ bn.a = bn.q * bn.b + bn.r
        /\ bn.r = 0 \/ (bn.r < 0) = (bn.b < 0)
        /\ IBig_abs(bn.r) < IBig_abs(bn.b)

\* the quotient of n by d > 0 rounded toward plus infinity
CeilDiv(n, d) == -((-n) \div d)

\* C29: mpz_crem_u16(n, d) returns |n - ceil(n / d) * d|, the magnitude of
\* the ceiling-division remainder, for every n and every d > 0
\* (100 and 3 give 2; -100 and 3 give 1).
C29_CeilRemainder ==
    (bn.op = "mpz_crem_u16" /\ bn.d > 0) =>
        bn.res = IBig_abs(bn.n - CeilDiv(bn.n, bn.d) * bn.d)

\* C30: bigint_gcdext(gcd, s, t, a, b) sets gcd to gcd(a, b) and s and t so
\* that gcd = s * a + t * b, for all a and all b # 0.
C30_FfiBezout ==
    (bn.op = "bigint_gcdext" /\ bn.b # 0) =>
        /\ bn.res.tag = "Ok"
        /\ bn.res.gcd = GcdOf(bn.a, bn.b)
        /\ bn.res.gcd = bn.res.s * bn.a + bn.res.t * bn.b

=============================================================================
